---- MODULE Spec2Model ----
(***************************************************************************)
(* Model of the corporate-loan data profiler: the rule registry of         *)
(* corporate_loan_rules.py, the rule application loop and the pipeline of  *)
(* genai_data_profiling.py, and the custom-rule hook of custom_rules.py.   *)
(*                                                                         *)
(* A text is a sequence of characters; a character is a one-character      *)
(* string, or the name of a control character ("LF", "CR", "TAB", "FF",    *)
(* "NUL", "DEL").  A cell of a DataFrame is a tagged value                 *)
(*   [t |-> tag, s |-> text, n |-> number]                                 *)
(* with tag "str", "int", "float" (n counts tenths), "nan", "bool"         *)
(* (n is 1 or 0), "none" (Python None) or "match" (an re.Match object).    *)
(***************************************************************************)
EXTENDS Integers, Sequences, FiniteSets, TLC

VARIABLES OPENAI_API_KEY, module, registry, upload, df, pc, i, status, today, pass, first, seen

vars == <<OPENAI_API_KEY, module, registry, upload, df, pc, i, status, today, pass, first, seen>>

(***************************************************************************)
(* Bounds of the model.                                                    *)
(***************************************************************************)
MaxRows == 2
MaxTicks == 1

(***************************************************************************)
(* Characters and texts.                                                   *)
(***************************************************************************)
Digits == {"0", "1", "2", "3", "4", "5", "6", "7", "8", "9"}

Lows == <<"a", "b", "c", "d", "e", "f", "g", "h", "i", "j", "k", "l", "m",
          "n", "o", "p", "q", "r", "s", "t", "u", "v", "w", "x", "y", "z">>

Ups == <<"A", "B", "C", "D", "E", "F", "G", "H", "I", "J", "K", "L", "M",
         "N", "O", "P", "Q", "R", "S", "T", "U", "V", "W", "X", "Y", "Z">>

UpperAZ == {Ups[k] : k \in 1..26}

LowerAZ == {Lows[k] : k \in 1..26}

\* The characters \x00-\x1F and \x7F that the model's texts can hold.
ControlChars == {"NUL", "TAB", "LF", "CR", "FF", "DEL"}

\* What str.strip() removes.
Whitespace == {" ", "TAB", "LF", "CR", "FF"}

DigitVal(ch) ==
    CASE ch = "0" -> 0 [] ch = "1" -> 1 [] ch = "2" -> 2 [] ch = "3" -> 3
      [] ch = "4" -> 4 [] ch = "5" -> 5 [] ch = "6" -> 6 [] ch = "7" -> 7
      [] ch = "8" -> 8 [] ch = "9" -> 9

DigitCh(d) == <<"0", "1", "2", "3", "4", "5", "6", "7", "8", "9">>[d + 1]

AllIn(s, C) == \A k \in 1..Len(s) : s[k] \in C

\* str.upper(), character by character.
UpperCh(ch) ==
    IF ch \in LowerAZ THEN Ups[CHOOSE k \in 1..26 : Lows[k] = ch] ELSE ch

Upper(s) == [k \in 1..Len(s) |-> UpperCh(s[k])]

RECURSIVE LStrip(_)
LStrip(s) ==
    IF Len(s) > 0 /\ s[1] \in Whitespace THEN LStrip(Tail(s)) ELSE s

RECURSIVE RStrip(_)
RStrip(s) ==
    IF Len(s) > 0 /\ s[Len(s)] \in Whitespace
    THEN RStrip(SubSeq(s, 1, Len(s) - 1))
    ELSE s

\* str.strip()
Strip(s) == RStrip(LStrip(s))

\* str.isdigit()
IsDigit(s) == Len(s) > 0 /\ AllIn(s, Digits)

RECURSIVE ParseDigits(_)
ParseDigits(s) ==
    IF Len(s) = 0 THEN 0
    ELSE 10 * ParseDigits(SubSeq(s, 1, Len(s) - 1)) + DigitVal(s[Len(s)])

RECURSIVE DigitsOf(_)
DigitsOf(n) ==
    IF n < 10 THEN <<DigitCh(n)>>
    ELSE DigitsOf(n \div 10) \o <<DigitCh(n % 10)>>

\* str(n) of an integer
IntToStr(n) == IF n < 0 THEN <<"-">> \o DigitsOf(0 - n) ELSE DigitsOf(n)

\* repr of a float held in tenths: 15 is "1.5", -10 is "-1.0"
FloatToStr(n) ==
    LET a == IF n < 0 THEN 0 - n ELSE n
    IN  (IF n < 0 THEN <<"-">> ELSE <<>>)
            \o DigitsOf(a \div 10) \o <<".">> \o <<DigitCh(a % 10)>>

\* The texts at which a pattern's final $ can stand: the end of the text, or
\* just before a line feed that ends the text (Python's re without MULTILINE).
DollarCores(s) ==
    {s} \cup (IF Len(s) > 0 /\ s[Len(s)] = "LF"
              THEN {SubSeq(s, 1, Len(s) - 1)} ELSE {})

(***************************************************************************)
(* Cell values.                                                            *)
(***************************************************************************)
VStr(s) == [t |-> "str", s |-> s, n |-> 0]

VInt(n) == [t |-> "int", s |-> <<>>, n |-> n]

VFloat(n) == [t |-> "float", s |-> <<>>, n |-> n]

VNaN == [t |-> "nan", s |-> <<>>, n |-> 0]

VBool(b) == [t |-> "bool", s |-> <<>>, n |-> IF b THEN 1 ELSE 0]

VNone == [t |-> "none", s |-> <<>>, n |-> 0]

VMatch == [t |-> "match", s |-> <<>>, n |-> 0]

VTrue == VBool(TRUE)

VFalse == VBool(FALSE)

\* Python truth of a verdict: a match object is true, None is false.
Truthy(v) == v = VTrue \/ v = VMatch

\* str(x), which is also what astype(str) gives for the cell.  The repr of a
\* match object is shortened to "<re.Match; span=(0, 1)>": it keeps a
\* character of every class the patterns tell apart.
StrOf(v) ==
    CASE v.t = "str" -> v.s
      [] v.t = "int" -> IntToStr(v.n)
      [] v.t = "float" -> FloatToStr(v.n)
      [] v.t = "nan" -> <<"n", "a", "n">>
      [] v.t = "bool" -> IF v.n = 1 THEN <<"T", "r", "u", "e">>
                         ELSE <<"F", "a", "l", "s", "e">>
      [] v.t = "none" -> <<"N", "o", "n", "e">>
      [] v.t = "match" -> <<"<", "r", "e", ".", "M", "a", "t", "c", "h", ";",
                            " ", "s", "p", "a", "n", "=", "(", "0", ",", " ",
                            "1", ")", ">">>

\* x == 'text' in Python: only a str equals a str.
PyEq(v, s) == v.t = "str" /\ v.s = s

\* isinstance(x, (int, float)): bool is a subclass of int, NaN is a float.
IsIntOrFloat(v) == v.t \in {"int", "float", "nan", "bool"}

\* isinstance(x, int)
IsInt(v) == v.t \in {"int", "bool"}

\* The number a numeric cell holds, in tenths.
Tenths(v) == IF v.t = "float" THEN v.n ELSE 10 * v.n

\* x >= 0 for a numeric x; every comparison with NaN is false.
GeZero(v) == v.t # "nan" /\ Tenths(v) >= 0

(***************************************************************************)
(* Python's float(x) and datetime.strptime(x, "%Y-%m-%d").  A failed       *)
(* conversion is the result with ok = FALSE (the exception the rule's      *)
(* except clause catches).  Numbers are held in tenths: the texts of the   *)
(* model carry at most one decimal.                                        *)
(***************************************************************************)
Failed == [ok |-> FALSE, nan |-> FALSE, n |-> 0]

Parsed(n) == [ok |-> TRUE, nan |-> FALSE, n |-> n]

\* float() of a text: optional sign, digits, optional point and one decimal;
\* "nan" in any case; blanks around it are ignored.
FloatOfText(s0) ==
    LET s == Strip(s0)
        neg == Len(s) > 0 /\ s[1] = "-"
        u == IF Len(s) > 0 /\ s[1] \in {"-", "+"} THEN Tail(s) ELSE s
        sign == IF neg THEN 0 - 1 ELSE 1
    IN  IF Upper(u) = <<"N", "A", "N">> THEN [ok |-> TRUE, nan |-> TRUE, n |-> 0]
        ELSE IF IsDigit(u) THEN Parsed(sign * 10 * ParseDigits(u))
        ELSE IF Len(u) >= 2 /\ u[Len(u)] = "." /\ IsDigit(SubSeq(u, 1, Len(u) - 1))
             THEN Parsed(sign * 10 * ParseDigits(SubSeq(u, 1, Len(u) - 1)))
        ELSE IF Len(u) >= 3 /\ u[Len(u) - 1] = "." /\ u[Len(u)] \in Digits
                /\ IsDigit(SubSeq(u, 1, Len(u) - 2))
             THEN Parsed(sign * (10 * ParseDigits(SubSeq(u, 1, Len(u) - 2))
                                 + DigitVal(u[Len(u)])))
        ELSE Failed

\* float(x): TypeError for None and for a match object.
PyFloat(v) ==
    CASE v.t = "str" -> FloatOfText(v.s)
      [] v.t \in {"int", "float", "bool"} -> Parsed(Tenths(v))
      [] v.t = "nan" -> [ok |-> TRUE, nan |-> TRUE, n |-> 0]
      [] OTHER -> Failed

\* 0 <= val <= 1 on the result of float(): false for NaN.
InUnitInterval(f) == ~f.nan /\ 0 <= f.n /\ f.n <= 10

IsLeap(y) == (y % 4 = 0 /\ y % 100 # 0) \/ y % 400 = 0

DaysInMonth(y, m) ==
    IF m = 2 THEN (IF IsLeap(y) THEN 29 ELSE 28)
    ELSE IF m \in {4, 6, 9, 11} THEN 30 ELSE 31

NoDate == [ok |-> FALSE, y |-> 0, m |-> 0, d |-> 0]

\* %m is 1[0-2]|0[1-9]|[1-9]
MonthText(s) ==
    \/ Len(s) = 1 /\ s[1] \in Digits \ {"0"}
    \/ Len(s) = 2 /\ s[1] = "1" /\ s[2] \in {"0", "1", "2"}
    \/ Len(s) = 2 /\ s[1] = "0" /\ s[2] \in Digits \ {"0"}

\* %d is 3[0-1]|[1-2]\d|0[1-9]|[1-9]| [1-9]
DayText(s) ==
    \/ Len(s) = 1 /\ s[1] \in Digits \ {"0"}
    \/ Len(s) = 2 /\ s[1] = "3" /\ s[2] \in {"0", "1"}
    \/ Len(s) = 2 /\ s[1] \in {"1", "2"} /\ s[2] \in Digits
    \/ Len(s) = 2 /\ s[1] \in {"0", " "} /\ s[2] \in Digits \ {"0"}

\* datetime.strptime(s, "%Y-%m-%d") of a text: four digits, a month, a day,
\* nothing after the day, and a date that exists.
StrptimeText(s) ==
    IF Len(s) >= 8 /\ IsDigit(SubSeq(s, 1, 4)) /\ s[5] = "-"
       /\ \E j \in {7, 8} : j < Len(s) /\ s[j] = "-"
    THEN LET j == CHOOSE k \in {7, 8} : k < Len(s) /\ s[k] = "-"
                      /\ \A h \in {7, 8} : (h < k) => s[h] # "-"
             mt == SubSeq(s, 6, j - 1)
             dt == SubSeq(s, j + 1, Len(s))
             y == ParseDigits(SubSeq(s, 1, 4))
             m == ParseDigits(mt)
             d == ParseDigits(IF dt[1] = " " THEN Tail(dt) ELSE dt)
         IN  IF MonthText(mt) /\ DayText(dt) /\ y >= 1 /\ d <= DaysInMonth(y, m)
             THEN [ok |-> TRUE, y |-> y, m |-> m, d |-> d]
             ELSE NoDate
    ELSE NoDate

\* strptime(x, ...): TypeError when x is not a str.
Strptime(v) == IF v.t = "str" THEN StrptimeText(v.s) ELSE NoDate

\* d <= datetime.today(): d is the midnight of its day, so the day counts.
NotAfter(d, now) ==
    \/ d.y < now.y
    \/ d.y = now.y /\ d.m < now.m
    \/ d.y = now.y /\ d.m = now.m /\ d.d <= now.d

(***************************************************************************)
(* The patterns of corporate_loan_rules.py.  re.match and Series.str.match *)
(* anchor at the start; every pattern here ends in $.                      *)
(***************************************************************************)
T_NA == <<"N", "A">>

T_NONE == <<"N", "O", "N", "E">>

T_OPEN_MATURITY == <<"9", "9", "9", "9", "-", "0", "1", "-", "0", "1">>

T_NOT_APPLICABLE == <<"9", "9", "9", "9", "-", "1", "2", "-", "3", "1">>

\* Some core of s (see DollarCores) is made of characters outside Bad, with
\* at least Min of them.
ExcludesPattern(s, Bad, Min) ==
    \E c \in DollarCores(s) : Len(c) >= Min /\ \A k \in 1..Len(c) : c[k] \notin Bad

\* Some core of s is made of Lo..Hi characters of class C.
ClassPattern(s, C, Lo, Hi) ==
    \E c \in DollarCores(s) : Len(c) >= Lo /\ Len(c) <= Hi /\ AllIn(c, C)

\* Some core of s is groups of digits of the given sizes joined by Sep.
RECURSIVE DigitGroups(_, _, _)
DigitGroups(c, sizes, Sep) ==
    IF Len(sizes) = 0 THEN FALSE
    ELSE IF Len(sizes) = 1 THEN Len(c) = sizes[1] /\ AllIn(c, Digits)
    ELSE /\ Len(c) > sizes[1]
         /\ AllIn(SubSeq(c, 1, sizes[1]), Digits)
         /\ c[sizes[1] + 1] = Sep
         /\ DigitGroups(SubSeq(c, sizes[1] + 2, Len(c)), Tail(sizes), Sep)

GroupsPattern(s, sizes, Sep) == \E c \in DollarCores(s) : DigitGroups(c, sizes, Sep)

\* r'^[^\r\n,\x00-\x1F\x7F]+$'
IdPattern(s) == ExcludesPattern(s, ControlChars \cup {","}, 1)

\* r'^\d+(\.\d{1,4})?$'
TargetHoldPattern(s) ==
    \E c \in DollarCores(s) :
        \/ IsDigit(c)
        \/ \E k \in 2..(Len(c) - 1) :
              /\ c[k] = "."
              /\ IsDigit(SubSeq(c, 1, k - 1))
              /\ IsDigit(SubSeq(c, k + 1, Len(c)))
              /\ Len(c) - k <= 4

\* r'^-?\d+$'
SignedIntPattern(s) ==
    \E c \in DollarCores(s) :
        IsDigit(IF Len(c) > 0 /\ c[1] = "-" THEN Tail(c) ELSE c)

\* r'^[A-Z]\.[A-Z]\.\d$'
ScheduleShiftPattern(s) ==
    \E c \in DollarCores(s) :
        /\ Len(c) = 5
        /\ c[1] \in UpperAZ /\ c[2] = "." /\ c[3] \in UpperAZ /\ c[4] = "."
        /\ c[5] \in Digits

(***************************************************************************)
(* The allowed codes of the enumerated-code rules.                         *)
(***************************************************************************)
EnumTextRules ==
    {"validate_industry_code_type", "validate_credit_facility_type",
     "validate_credit_facility_purpose", "validate_line_reported_on_fry9c",
     "validate_participation_flag", "validate_lien_position",
     "validate_security_type", "validate_interest_rate_variability",
     "validate_interest_rate_index", "validate_tax_status"}

EnumNumberRules ==
    {"validate_special_purpose_entity_flag", "validate_leveraged_loan_flag",
     "validate_locom_flag", "validate_prepayment_penalty_flag",
     "validate_disposition_flag", "validate_syndicated_loan_flag"}

AllowedCodes(rule) ==
    CASE rule = "validate_industry_code_type" -> 1..3
      [] rule = "validate_credit_facility_type" -> 0..19
      [] rule = "validate_credit_facility_purpose" -> (0..30) \cup {33}
      [] rule = "validate_line_reported_on_fry9c" -> 1..11
      [] rule = "validate_participation_flag" -> 1..5
      [] rule = "validate_lien_position" -> 1..4
      [] rule = "validate_security_type" -> 0..6
      [] rule = "validate_interest_rate_variability" -> 1..4
      [] rule = "validate_interest_rate_index" -> 1..7
      [] rule = "validate_tax_status" -> 1..2
      [] rule = "validate_special_purpose_entity_flag" -> 1..2
      [] rule = "validate_leveraged_loan_flag" -> 1..2
      [] rule = "validate_locom_flag" -> 1..3
      [] rule = "validate_prepayment_penalty_flag" -> 1..3
      [] rule = "validate_disposition_flag" -> 0..8
      [] rule = "validate_syndicated_loan_flag" -> 0..4

\* Series.astype(str).isin([str(i) for i in codes])
IsinTexts(x, codes) == \E k \in codes : StrOf(x) = IntToStr(k)

\* Series.isin([codes]) on the column as it is: a number is found by its
\* value (1.0 and True are 1), a str or a missing value is not found.
IsinNumbers(x, codes) ==
    x.t \in {"int", "float", "bool"} /\ \E k \in codes : Tenths(x) = 10 * k

(***************************************************************************)
(* The rules: for each validation function, the field it reads and the     *)
(* column it writes.  The two other-description rules also read their      *)
(* governing code field (GoverningField).                                  *)
(***************************************************************************)
RuleTable ==
    [
     validate_customer_id |-> <<"Customer_ID", "Customer_ID">>,
     validate_internal_id |-> <<"Internal_ID", "Internal_ID">>,
     validate_original_internal_id |-> <<"Original_Internal_ID", "Original_Internal_ID">>,
     validate_obligor_name |-> <<"Obligor_Name", "Obligor_Name">>,
     validate_city |-> <<"City", "City">>,
     validate_country |-> <<"Country", "Country">>,
     validate_zip_code |-> <<"Zip_Code", "Zip_Code">>,
     validate_industry_code |-> <<"Industry_Code", "Industry_Code">>,
     validate_industry_code_type |-> <<"Industry_Code_Type", "Industry_Code_Type">>,
     validate_internal_risk_rating |-> <<"Internal_Risk_Rating", "Internal_Risk_Rating">>,
     validate_tin |-> <<"TIN", "TIN">>,
     validate_stock_exchange |-> <<"Stock_Exchange", "Stock_Exchange">>,
     validate_ticker_symbol |-> <<"Ticker_Symbol", "Ticker_Symbol">>,
     validate_cusip |-> <<"CUSIP", "CUSIP">>,
     validate_internal_credit_facility_id |-> <<"Internal_Credit_Facility_ID", "Internal_Credit_Facility_ID">>,
     validate_original_credit_facility_id |-> <<"Original_Credit_Facility_ID", "Original_Credit_Facility_ID">>,
     validate_origination_date |-> <<"Origination_Date", "Origination_Date">>,
     validate_maturity_date |-> <<"Maturity_Date", "Maturity_Date">>,
     validate_credit_facility_type |-> <<"Credit_Facility_Type", "Credit_Facility_Type">>,
     validate_other_credit_facility_type_desc |-> <<"Other_Credit_Facility_Type_Description", "Other_Credit_Facility_Desc">>,
     validate_credit_facility_purpose |-> <<"Credit_Facility_Purpose", "Credit_Facility_Purpose">>,
     validate_other_credit_facility_purpose_desc |-> <<"Other_Credit_Facility_Purpose_Description", "Other_Credit_Facility_Purpose_Desc">>,
     validate_committed_exposure |-> <<"Committed_Exposure", "Committed_Exposure">>,
     validate_utilized_exposure |-> <<"Utilized_Exposure", "Utilized_Exposure">>,
     validate_line_reported_on_fry9c |-> <<"Line_Reported_on_FR_Y9C", "Line_Reported_on_FR_Y9C">>,
     validate_line_of_business |-> <<"Line_of_Business", "Line_of_Business">>,
     validate_cumulative_chargeoffs |-> <<"Cumulative_Chargeoffs", "Cumulative_Chargeoffs">>,
     validate_days_past_due |-> <<"Days_Past_Due", "Days_Past_Due">>,
     validate_non_accrual_date |-> <<"Non_Accrual_Date", "Non_Accrual_Date">>,
     validate_participation_flag |-> <<"Participation_Flag", "Participation_Flag">>,
     validate_lien_position |-> <<"Lien_Position", "Lien_Position">>,
     validate_security_type |-> <<"Security_Type", "Security_Type">>,
     validate_interest_rate_variability |-> <<"Interest_Rate_Variability", "Interest_Rate_Variability">>,
     validate_interest_rate |-> <<"Interest_Rate", "Interest_Rate">>,
     validate_interest_rate_index |-> <<"Interest_Rate_Index", "Interest_Rate_Index">>,
     validate_interest_rate_spread |-> <<"Interest_Rate_Spread", "Interest_Rate_Spread">>,
     validate_interest_rate_ceiling |-> <<"Interest_Rate_Ceiling", "Interest_Rate_Ceiling">>,
     validate_interest_rate_floor |-> <<"Interest_Rate_Floor", "Interest_Rate_Floor">>,
     validate_tax_status |-> <<"Tax_Status", "Tax_Status">>,
     validate_guarantor_internal_id |-> <<"Guarantor_Internal_ID", "Guarantor_Internal_ID">>,
     validate_guarantor_name |-> <<"Guarantor_Name", "Guarantor_Name">>,
     validate_guarantor_tin |-> <<"Guarantor_TIN", "Guarantor_TIN">>,
     validate_guarantor_internal_risk_rating |-> <<"Guarantor_Internal_Risk_Rating", "Guarantor_Internal_Risk_Rating">>,
     validate_entity_internal_id |-> <<"Entity_Internal_ID", "Entity_Internal_ID">>,
     validate_entity_name |-> <<"Entity_Name", "Entity_Name">>,
     validate_entity_internal_risk_rating |-> <<"Entity_Internal_Risk_Rating", "Entity_Internal_Risk_Rating">>,
     validate_date_financials |-> <<"Date_Financials", "Date_Financials">>,
     validate_date_last_audit |-> <<"Date_Last_Audit", "Date_Last_Audit">>,
     validate_net_sales_current |-> <<"Net_Sales_Current", "Net_Sales_Current">>,
     validate_net_sales_prior_year |-> <<"Net_Sales_Prior_Year", "Net_Sales_Prior_Year">>,
     validate_operating_income |-> <<"Operating_Income", "Operating_Income">>,
     validate_depreciation_amortization |-> <<"Depreciation_Amortization", "Depreciation_Amortization">>,
     validate_interest_expense |-> <<"Interest_Expense", "Interest_Expense">>,
     validate_net_income_current |-> <<"Net_Income_Current", "Net_Income_Current">>,
     validate_net_income_prior_year |-> <<"Net_Income_Prior_Year", "Net_Income_Prior_Year">>,
     validate_cash_marketable_securities |-> <<"Cash_Marketable_Securities", "Cash_Marketable_Securities">>,
     validate_accounts_receivable_current |-> <<"Accounts_Receivable_Current", "AR_Current">>,
     validate_accounts_receivable_prior_year |-> <<"Accounts_Receivable_Prior_Year", "AR_Prior_Year">>,
     validate_inventory_current |-> <<"Inventory_Current", "Inventory_Current">>,
     validate_inventory_prior_year |-> <<"Inventory_Prior_Year", "Inventory_Prior_Year">>,
     validate_current_assets_current |-> <<"Current_Assets_Current", "Current_Assets_Current">>,
     validate_current_assets_prior_year |-> <<"Current_Assets_Prior_Year", "Current_Assets_Prior_Year">>,
     validate_tangible_assets |-> <<"Tangible_Assets", "Tangible_Assets">>,
     validate_fixed_assets |-> <<"Fixed_Assets", "Fixed_Assets">>,
     validate_total_assets_current |-> <<"Total_Assets_Current", "Total_Assets_Current">>,
     validate_total_assets_prior_year |-> <<"Total_Assets_Prior_Year", "Total_Assets_Prior_Year">>,
     validate_accounts_payable_current |-> <<"Accounts_Payable_Current", "Accounts_Payable_Current">>,
     validate_accounts_payable_prior_year |-> <<"Accounts_Payable_Prior_Year", "Accounts_Payable_Prior_Year">>,
     validate_short_term_debt |-> <<"Short_Term_Debt", "Short_Term_Debt">>,
     validate_current_maturities_long_term_debt |-> <<"Current_Maturities_Long_Term_Debt", "Current_Maturities_Long_Term_Debt">>,
     validate_current_liabilities_current |-> <<"Current_Liabilities_Current", "Current_Liabilities_Current">>,
     validate_current_liabilities_prior_year |-> <<"Current_Liabilities_Prior_Year", "Current_Liabilities_Prior_Year">>,
     validate_long_term_debt |-> <<"Long_Term_Debt", "Long_Term_Debt">>,
     validate_minority_interest |-> <<"Minority_Interest", "Minority_Interest">>,
     validate_total_liabilities |-> <<"Total_Liabilities", "Total_Liabilities">>,
     validate_retained_earnings |-> <<"Retained_Earnings", "Retained_Earnings">>,
     validate_capital_expenditures |-> <<"Capital_Expenditures", "Capital_Expenditures">>,
     validate_special_purpose_entity_flag |-> <<"Special_Purpose_Entity_Flag", "Special_Purpose_Entity_Flag">>,
     validate_locom_flag |-> <<"LOCOM", "LOCOM">>,
     validate_snc_internal_credit_id |-> <<"SNC_Internal_Credit_ID", "SNC_Internal_Credit_ID">>,
     validate_probability_of_default |-> <<"Probability_of_Default", "PD">>,
     validate_loss_given_default |-> <<"LGD", "LGD">>,
     validate_exposure_at_default |-> <<"EAD", "EAD">>,
     validate_renewal_date |-> <<"Renewal_Date", "Renewal_Date">>,
     validate_credit_facility_currency |-> <<"Credit_Facility_Currency", "Credit_Facility_Currency">>,
     validate_collateral_market_value |-> <<"Collateral_Market_Value", "Collateral_Market_Value">>,
     validate_prepayment_penalty_flag |-> <<"Prepayment_Penalty_Flag", "Prepayment_Penalty_Flag">>,
     validate_entity_industry_code |-> <<"Entity_Industry_Code", "Entity_Industry_Code">>,
     validate_participation_interest |-> <<"Participation_Interest", "Participation_Interest">>,
     validate_leveraged_loan_flag |-> <<"Leveraged_Loan_Flag", "Leveraged_Loan_Flag">>,
     validate_disposition_flag |-> <<"Disposition_Flag", "Disposition_Flag">>,
     validate_disposition_schedule_shift |-> <<"Disposition_Schedule_Shift", "Disposition_Schedule_Shift">>,
     validate_syndicated_loan_flag |-> <<"Syndicated_Loan_Flag", "Syndicated_Loan_Flag">>,
     validate_target_hold |-> <<"Target_Hold", "Target_Hold">>,
     validate_asc326_20 |-> <<"ASC326_20", "ASC326_20">>,
     validate_pcd_noncredit_discount |-> <<"PCD_Noncredit_Discount", "PCD_Noncredit_Discount">>,
     validate_current_maturity_date |-> <<"Current_Maturity_Date", "Current_Maturity_Date">>,
     validate_committed_exposure_global_par |-> <<"Committed_Exposure_Global_Par", "Committed_Exposure_Global_Par">>,
     validate_utilized_exposure_global_par |-> <<"Utilized_Exposure_Global_Par", "Utilized_Exposure_Global_Par">>,
     validate_committed_exposure_global_fair |-> <<"Committed_Exposure_Global_Fair", "Committed_Exposure_Global_Fair">>,
     validate_utilized_exposure_global_fair |-> <<"Utilized_Exposure_Global_Fair", "Utilized_Exposure_Global_Fair">>,
     validate_obligor_lei |-> <<"Obligor_LEI", "Obligor_LEI">>,
     validate_psr_lei |-> <<"PSR_LEI", "PSR_LEI">>
    ]

AllRules == DOMAIN RuleTable

SourceField(rule) == RuleTable[rule][1]

OutputField(rule) == RuleTable[rule][2]

DescRules ==
    {"validate_other_credit_facility_type_desc",
     "validate_other_credit_facility_purpose_desc"}

GoverningField(rule) ==
    IF rule = "validate_other_credit_facility_type_desc"
    THEN "Credit_Facility_Type"
    ELSE "Credit_Facility_Purpose"

\* The registry as CORPORATE_LOAN_RULES.extend([...]) builds it, in order.
CORPORATE_LOAN_RULES ==
    <<
      "validate_target_hold", "validate_asc326_20",
      "validate_pcd_noncredit_discount", "validate_current_maturity_date",
      "validate_committed_exposure_global_par",
      "validate_utilized_exposure_global_par",
      "validate_committed_exposure_global_fair",
      "validate_utilized_exposure_global_fair", "validate_obligor_lei",
      "validate_psr_lei", "validate_country", "validate_city",
      "validate_accounts_payable_current",
      "validate_accounts_payable_prior_year",
      "validate_accounts_receivable_current",
      "validate_accounts_receivable_prior_year",
      "validate_capital_expenditures", "validate_cash_marketable_securities",
      "validate_collateral_market_value", "validate_committed_exposure",
      "validate_credit_facility_currency",
      "validate_credit_facility_purpose", "validate_credit_facility_type",
      "validate_cumulative_chargeoffs", "validate_current_assets_current",
      "validate_current_assets_prior_year",
      "validate_current_liabilities_current",
      "validate_current_liabilities_prior_year",
      "validate_current_maturities_long_term_debt", "validate_cusip",
      "validate_customer_id", "validate_date_financials",
      "validate_date_last_audit", "validate_days_past_due",
      "validate_depreciation_amortization", "validate_disposition_flag",
      "validate_disposition_schedule_shift", "validate_entity_industry_code",
      "validate_entity_internal_id", "validate_entity_internal_risk_rating",
      "validate_entity_name", "validate_exposure_at_default",
      "validate_fixed_assets", "validate_guarantor_internal_id",
      "validate_guarantor_internal_risk_rating", "validate_guarantor_name",
      "validate_guarantor_tin", "validate_industry_code",
      "validate_industry_code_type", "validate_interest_expense",
      "validate_interest_rate", "validate_interest_rate_ceiling",
      "validate_interest_rate_floor", "validate_interest_rate_index",
      "validate_interest_rate_spread", "validate_interest_rate_variability",
      "validate_internal_credit_facility_id", "validate_internal_id",
      "validate_internal_risk_rating", "validate_inventory_current",
      "validate_inventory_prior_year", "validate_leveraged_loan_flag",
      "validate_lien_position", "validate_line_of_business",
      "validate_line_reported_on_fry9c", "validate_locom_flag",
      "validate_long_term_debt", "validate_loss_given_default",
      "validate_maturity_date", "validate_minority_interest",
      "validate_net_income_current", "validate_net_income_prior_year",
      "validate_net_sales_current", "validate_net_sales_prior_year",
      "validate_non_accrual_date", "validate_obligor_name",
      "validate_operating_income", "validate_original_credit_facility_id",
      "validate_original_internal_id", "validate_origination_date",
      "validate_other_credit_facility_purpose_desc",
      "validate_other_credit_facility_type_desc",
      "validate_participation_flag", "validate_participation_interest",
      "validate_prepayment_penalty_flag", "validate_probability_of_default",
      "validate_renewal_date", "validate_retained_earnings",
      "validate_security_type", "validate_short_term_debt",
      "validate_snc_internal_credit_id",
      "validate_special_purpose_entity_flag", "validate_stock_exchange",
      "validate_syndicated_loan_flag", "validate_tangible_assets",
      "validate_tax_status", "validate_ticker_symbol", "validate_tin",
      "validate_total_assets_current", "validate_total_assets_prior_year",
      "validate_total_liabilities", "validate_utilized_exposure"
    >>

(***************************************************************************)
(* The verdict of each rule on one cell x, as the function computes it.    *)
(* Rules with the same body share a definition; CellVerdict names them.    *)
(***************************************************************************)
\* validate_customer_id and the other identifier rules
validate_customer_id(x) == VBool(IdPattern(StrOf(x)))

\* validate_city and the other rules that ask for a non-blank text
validate_city(x) == VBool(Strip(StrOf(x)) # <<>>)

\* r'^[A-Z]{2}$'
validate_country(x) == VBool(ClassPattern(StrOf(x), UpperAZ, 2, 2))

\* r'^\d{5}$'
validate_zip_code(x) == VBool(ClassPattern(StrOf(x), Digits, 5, 5))

\* r'^\d{4,6}$'
validate_industry_code(x) == VBool(ClassPattern(StrOf(x), Digits, 4, 6))

\* r'^(\d{9}|\d{2}-\d{7}|NA)$'
validate_tin(x) ==
    LET s == StrOf(x)
    IN  VBool(\/ ClassPattern(s, Digits, 9, 9)
              \/ GroupsPattern(s, <<2, 7>>, "-")
              \/ T_NA \in DollarCores(s))

\* r'^[A-Za-z0-9]{6}$|^NA$'
validate_cusip(x) ==
    LET s == StrOf(x)
    IN  VBool(\/ ClassPattern(s, UpperAZ \cup LowerAZ \cup Digits, 6, 6)
              \/ T_NA \in DollarCores(s))

\* r'^[^\r\n\x00-\x1F\x7F]+$': the comma is allowed here
validate_original_credit_facility_id(x) ==
    VBool(ExcludesPattern(StrOf(x), ControlChars, 1))

\* is_valid_date of validate_origination_date, on the astype(str) text
is_valid_date(date_str, now) ==
    LET d == StrptimeText(date_str)
    IN  IF d.ok THEN NotAfter(d, now) ELSE FALSE

validate_origination_date(x, now) == VBool(is_valid_date(StrOf(x), now))

\* is_valid_maturity and is_valid_non_accrual: bool(datetime) is True
is_valid_maturity(date_str, sentinel) ==
    IF StrptimeText(date_str).ok THEN TRUE ELSE date_str = sentinel

validate_maturity_date(x) == VBool(is_valid_maturity(StrOf(x), T_OPEN_MATURITY))

validate_non_accrual_date(x) ==
    VBool(is_valid_maturity(StrOf(x), T_NOT_APPLICABLE))

\* validate_committed_exposure, validate_utilized_exposure
validate_committed_exposure(x) == VBool(IsIntOrFloat(x) /\ GeZero(x))

\* is_valid of validate_cumulative_chargeoffs
validate_cumulative_chargeoffs(x) ==
    VBool(PyEq(x, T_NA) \/ (IsIntOrFloat(x) /\ GeZero(x)))

validate_days_past_due(x) == VBool(IsInt(x) /\ GeZero(x))

\* A variant of is_valid_rate whose except clause returns True: with it a
\* value float() rejects would pass (used to test the sensitivity of C1).
is_valid_rate_except_true(val) ==
    IF Upper(Strip(StrOf(val))) = T_NA THEN TRUE
    ELSE LET f == PyFloat(val)
         IN  IF f.ok THEN InUnitInterval(f) ELSE TRUE

\* is_valid_rate (validate_interest_rate) and is_valid_participation
is_valid_rate(val) ==
    IF Upper(Strip(StrOf(val))) = T_NA THEN TRUE
    ELSE LET f == PyFloat(val)
         IN  IF f.ok THEN InUnitInterval(f) ELSE FALSE

\* is_valid_pd and is_valid_lgd: "NA" is not stripped
is_valid_pd(x) ==
    IF Upper(StrOf(x)) = T_NA THEN TRUE
    ELSE LET f == PyFloat(x)
         IN  IF f.ok THEN InUnitInterval(f) ELSE FALSE

is_valid_spread(val) ==
    IF Upper(Strip(StrOf(val))) = T_NA THEN TRUE
    ELSE IF PyFloat(val).ok THEN TRUE ELSE FALSE

\* is_valid_ceiling and is_valid_floor: float() of the stripped upper text
is_valid_ceiling(val0) ==
    LET val == Upper(Strip(StrOf(val0)))
    IN  IF val \in {T_NA, T_NONE} THEN TRUE
        ELSE IF FloatOfText(val).ok THEN TRUE ELSE FALSE

\* validate_guarantor_internal_id, validate_guarantor_name
validate_guarantor_internal_id(x0) ==
    LET x == StrOf(x0)
    IN  VBool(IF Upper(Strip(x)) = T_NA THEN TRUE ELSE IdPattern(x))

\* r'^(\d{3}-\d{2}-\d{4}|\d{9}|NA)$' on the upper-cased text
validate_guarantor_tin(x) ==
    LET s == Upper(StrOf(x))
    IN  VBool(\/ GroupsPattern(s, <<3, 2, 4>>, "-")
              \/ ClassPattern(s, Digits, 9, 9)
              \/ T_NA \in DollarCores(s))

validate_guarantor_internal_risk_rating(x0) ==
    LET x == StrOf(x0)
    IN  VBool(IF Upper(Strip(x)) = T_NA THEN TRUE ELSE Strip(x) # <<>>)

\* r'^[^\r\n,\x00-\x1F\x7F]*$': validate_entity_internal_id, validate_entity_name
validate_entity_internal_id(x) ==
    VBool(ExcludesPattern(StrOf(x), ControlChars \cup {","}, 0))

\* lambda x: str(x).isdigit(), the financial-statement amounts and ASC326_20
validate_net_sales_current(x) == VBool(IsDigit(StrOf(x)))

\* str(x).isdigit() or str(x).strip().upper() == 'NA'
is_valid_ead(x) == IsDigit(StrOf(x)) \/ Upper(Strip(StrOf(x))) = T_NA

\* x == 'NA' or bool(re.match(r'^[^,\r\n\f]+$', str(x)))
validate_snc_internal_credit_id(x) ==
    VBool(PyEq(x, T_NA) \/ ExcludesPattern(StrOf(x), {",", "CR", "LF", "FF"}, 1))

\* is_valid_date of validate_renewal_date: r'^\d{2}-\d{2}-\d{4}$'
validate_renewal_date(x) ==
    VBool(\/ Strip(StrOf(x)) = T_NOT_APPLICABLE
          \/ GroupsPattern(StrOf(x), <<2, 2, 4>>, "-"))

\* r'^[A-Z]{3}$' on the stripped text
validate_credit_facility_currency(x) ==
    VBool(ClassPattern(Strip(StrOf(x)), UpperAZ, 3, 3))

validate_entity_industry_code(x) ==
    VBool(IsDigit(StrOf(x)) /\ 4 <= Len(StrOf(x)) /\ Len(StrOf(x)) <= 6)

validate_disposition_schedule_shift(x) ==
    VBool(\/ ScheduleShiftPattern(Strip(StrOf(x)))
          \/ Upper(Strip(StrOf(x))) = T_NA)

\* is_valid_target_hold returns True, a match object or None
is_valid_target_hold(x) ==
    IF Upper(Strip(StrOf(x))) = T_NA THEN VTrue
    ELSE IF TargetHoldPattern(StrOf(x)) THEN VMatch ELSE VNone

\* lambda x: x == '' or str(x).isdigit()
validate_pcd_noncredit_discount(x) == VBool(PyEq(x, <<>>) \/ IsDigit(StrOf(x)))

\* is_valid_date of validate_current_maturity_date: x is the cell itself
validate_current_maturity_date(x) ==
    VBool(IF Strptime(x).ok THEN TRUE ELSE PyEq(x, T_OPEN_MATURITY))

\* is_valid_committed_exposure and the other three global par/fair rules:
\* True, a match object or None
is_valid_committed_exposure(x) ==
    IF Upper(StrOf(x)) = T_NA THEN VTrue
    ELSE IF SignedIntPattern(StrOf(x)) THEN VMatch ELSE VNone

\* re.match(r'^[A-Z0-9]{20}$', str(x)) or str(x).upper() == 'NA'
validate_obligor_lei(x) ==
    IF ClassPattern(StrOf(x), UpperAZ \cup Digits, 20, 20) THEN VMatch
    ELSE VBool(Upper(StrOf(x)) = T_NA)

IdRules ==
    {"validate_customer_id", "validate_internal_id",
     "validate_original_internal_id", "validate_obligor_name",
     "validate_internal_credit_facility_id"}

NonBlankRules ==
    {"validate_city", "validate_internal_risk_rating", "validate_stock_exchange",
     "validate_ticker_symbol", "validate_line_of_business",
     "validate_entity_internal_risk_rating"}

DigitRules ==
    {"validate_net_sales_current", "validate_net_sales_prior_year",
     "validate_operating_income", "validate_depreciation_amortization",
     "validate_interest_expense", "validate_net_income_current",
     "validate_net_income_prior_year", "validate_cash_marketable_securities",
     "validate_accounts_receivable_current",
     "validate_accounts_receivable_prior_year", "validate_inventory_current",
     "validate_inventory_prior_year", "validate_current_assets_current",
     "validate_current_assets_prior_year", "validate_tangible_assets",
     "validate_fixed_assets", "validate_total_assets_current",
     "validate_total_assets_prior_year", "validate_accounts_payable_current",
     "validate_accounts_payable_prior_year", "validate_short_term_debt",
     "validate_current_maturities_long_term_debt",
     "validate_current_liabilities_current",
     "validate_current_liabilities_prior_year", "validate_long_term_debt",
     "validate_total_liabilities", "validate_retained_earnings",
     "validate_capital_expenditures", "validate_asc326_20"}

DatetimeRules == {"validate_date_financials", "validate_date_last_audit"}

\* The verdict the rule's function computes for a cell x of its source field.
CellVerdict(rule, x, now) ==
    CASE rule \in IdRules -> validate_customer_id(x)
      [] rule \in NonBlankRules -> validate_city(x)
      [] rule \in DigitRules -> validate_net_sales_current(x)
      [] rule \in EnumTextRules -> VBool(IsinTexts(x, AllowedCodes(rule)))
      [] rule \in EnumNumberRules -> VBool(IsinNumbers(x, AllowedCodes(rule)))
      [] rule = "validate_country" -> validate_country(x)
      [] rule = "validate_zip_code" -> validate_zip_code(x)
      [] rule = "validate_industry_code" -> validate_industry_code(x)
      [] rule = "validate_tin" -> validate_tin(x)
      [] rule = "validate_cusip" -> validate_cusip(x)
      [] rule = "validate_original_credit_facility_id" ->
            validate_original_credit_facility_id(x)
      [] rule = "validate_origination_date" -> validate_origination_date(x, now)
      [] rule = "validate_maturity_date" -> validate_maturity_date(x)
      [] rule = "validate_non_accrual_date" -> validate_non_accrual_date(x)
      [] rule \in {"validate_committed_exposure", "validate_utilized_exposure"} ->
            validate_committed_exposure(x)
      [] rule = "validate_cumulative_chargeoffs" -> validate_cumulative_chargeoffs(x)
      [] rule = "validate_days_past_due" -> validate_days_past_due(x)
      [] rule \in {"validate_interest_rate", "validate_participation_interest"} ->
            VBool(is_valid_rate(x))
      [] rule \in {"validate_probability_of_default", "validate_loss_given_default"} ->
            VBool(is_valid_pd(x))
      [] rule = "validate_interest_rate_spread" -> VBool(is_valid_spread(x))
      [] rule \in {"validate_interest_rate_ceiling", "validate_interest_rate_floor"} ->
            VBool(is_valid_ceiling(x))
      [] rule \in {"validate_guarantor_internal_id", "validate_guarantor_name"} ->
            validate_guarantor_internal_id(x)
      [] rule = "validate_guarantor_tin" -> validate_guarantor_tin(x)
      [] rule = "validate_guarantor_internal_risk_rating" ->
            validate_guarantor_internal_risk_rating(x)
      [] rule \in {"validate_entity_internal_id", "validate_entity_name"} ->
            validate_entity_internal_id(x)
      [] rule \in {"validate_minority_interest", "validate_collateral_market_value",
                   "validate_exposure_at_default"} -> VBool(is_valid_ead(x))
      [] rule = "validate_snc_internal_credit_id" -> validate_snc_internal_credit_id(x)
      [] rule = "validate_renewal_date" -> validate_renewal_date(x)
      [] rule = "validate_credit_facility_currency" ->
            validate_credit_facility_currency(x)
      [] rule = "validate_entity_industry_code" -> validate_entity_industry_code(x)
      [] rule = "validate_disposition_schedule_shift" ->
            validate_disposition_schedule_shift(x)
      [] rule = "validate_target_hold" -> is_valid_target_hold(x)
      [] rule = "validate_pcd_noncredit_discount" -> validate_pcd_noncredit_discount(x)
      [] rule = "validate_current_maturity_date" -> validate_current_maturity_date(x)
      [] rule \in {"validate_committed_exposure_global_par",
                   "validate_utilized_exposure_global_par",
                   "validate_committed_exposure_global_fair",
                   "validate_utilized_exposure_global_fair"} ->
            is_valid_committed_exposure(x)
      [] rule \in {"validate_obligor_lei", "validate_psr_lei"} -> validate_obligor_lei(x)

\* The rules CellVerdict covers: all but the row-wise and the to_datetime rules.
CellRules == AllRules \ (DescRules \cup DatetimeRules)

(***************************************************************************)
(* The DataFrame: its columns, their dtypes, its index labels and its rows *)
(* (each a function from column name to cell).  NotAFrame is the value ""  *)
(* that apply_custom_rules returns.                                        *)
(***************************************************************************)
NotAFrame ==
    [frame |-> FALSE, cols |-> {}, dtype |-> [c \in {} |-> "object"],
     index |-> <<>>, rows |-> <<>>]

ColumnOf(d, c) == [k \in 1..Len(d.rows) |-> d.rows[k][c]]

\* A variant of the column assignment that puts the values in the reverse
\* row order (used to test the sensitivity of C8).
SetColumnReversed(d, c, vals, dt) ==
    [d EXCEPT !.cols = @ \cup {c},
              !.dtype = [x \in d.cols \cup {c} |-> IF x = c THEN dt ELSE d.dtype[x]],
              !.rows = [k \in 1..Len(d.rows) |->
                          [x \in d.cols \cup {c} |->
                              IF x = c THEN vals[Len(d.rows) + 1 - k]
                              ELSE d.rows[k][x]]]]

\* A variant of the column assignment that keeps the assigned column only
\* (used to test the sensitivity of C9).
SetColumnAlone(d, c, vals, dt) ==
    [d EXCEPT !.cols = {c},
              !.dtype = [x \in {c} |-> dt],
              !.rows = [k \in 1..Len(d.rows) |-> [x \in {c} |-> vals[k]]]]

\* df[c] = values: the column is replaced, or added when it is new; the
\* values come from a Series over the same index, so they keep their rows.
SetColumn(d, c, vals, dt) ==
    [d EXCEPT !.cols = @ \cup {c},
              !.dtype = [x \in d.cols \cup {c} |-> IF x = c THEN dt ELSE d.dtype[x]],
              !.rows = [k \in 1..Len(d.rows) |->
                          [x \in d.cols \cup {c} |->
                              IF x = c THEN vals[k] ELSE d.rows[k][x]]]]

(***************************************************************************)
(* pd.read_csv(uploaded_file) with its defaults.  A column whose cells are *)
(* all integers is int64; one whose cells are numbers or missing is        *)
(* float64, the missing cells NaN; any other column is object, its cells   *)
(* str, the missing ones NaN.  A file with no data rows gives object       *)
(* columns.  (The texts of the model hold no "True"/"False" column.)       *)
(***************************************************************************)
NaTexts ==
    {<<>>, <<"N", "A">>, <<"N", "/", "A">>, <<"N", "a", "N">>, <<"n", "a", "n">>,
     <<"N", "U", "L", "L">>, <<"n", "u", "l", "l">>, <<"N", "o", "n", "e">>}

IsIntText(s) ==
    IsDigit(IF Len(s) > 0 /\ s[1] \in {"-", "+"} THEN Tail(s) ELSE s)

IsNumberText(s) == s \notin NaTexts /\ FloatOfText(s).ok /\ Strip(s) = s

InferDtype(texts) ==
    IF Len(texts) = 0 THEN "object"
    ELSE IF \A k \in 1..Len(texts) : IsIntText(texts[k]) THEN "int64"
    ELSE IF \A k \in 1..Len(texts) : texts[k] \in NaTexts \/ IsNumberText(texts[k])
         THEN "float64"
    ELSE "object"

ConvertCell(s, dt) ==
    IF s \in NaTexts THEN VNaN
    ELSE IF dt = "int64" THEN VInt(FloatOfText(s).n \div 10)
    ELSE IF dt = "float64" THEN VFloat(FloatOfText(s).n)
    ELSE VStr(s)

\* The expected columns: every field a rule reads.
InputColumns ==
    {SourceField(r) : r \in AllRules} \cup {GoverningField(r) : r \in DescRules}

\* The model's uploads give the same text to every column of a group.
Group(c) ==
    IF c \in {"Date_Financials", "Date_Last_Audit"} THEN "dt"
    ELSE IF c \in {"Credit_Facility_Type", "Credit_Facility_Purpose"} THEN "code"
    ELSE IF c \in {"Other_Credit_Facility_Type_Description",
                   "Other_Credit_Facility_Purpose_Description"} THEN "desc"
    ELSE "gen"

ReadCsv(up) ==
    LET n == Len(up)
        dts == [g \in {"gen", "dt", "code", "desc"} |->
                   InferDtype([k \in 1..n |-> up[k][g]])]
    IN  [frame |-> TRUE,
         cols |-> InputColumns,
         dtype |-> [c \in InputColumns |-> dts[Group(c)]],
         index |-> [k \in 1..n |-> k - 1],
         rows |-> [k \in 1..n |->
                     [c \in InputColumns |->
                         ConvertCell(up[k][Group(c)], dts[Group(c)])]]]

(***************************************************************************)
(* One rule applied to the DataFrame: rule(df).  The result is the new     *)
(* DataFrame, or ok = FALSE when the function raises.                      *)
(***************************************************************************)
Returned(d) == [ok |-> TRUE, df |-> d]

Raised(d) == [ok |-> FALSE, df |-> d]

\* The lambda of the other-description rules raises AttributeError when the
\* governing code is '0' and the description is not a str (.strip()).
DescRaises(g, desc) == PyEq(g, <<"0">>) /\ desc.t # "str"

DescVerdict(g, desc) ==
    IF ~PyEq(g, <<"0">>) \/ (PyEq(g, <<"0">>) /\ Strip(desc.s) # <<>>)
    THEN VTrue ELSE VFalse

\* pd.to_datetime(cell, errors='coerce').notna(): a number is a time since
\* the epoch, a missing value is NaT; of the texts of the model (ISO dates,
\* words, small numbers) the ISO dates within the nanosecond range parse.
\* A verdict (a column of dtype bool, or a bool among objects) is coerced
\* to NaT.
ToDatetimeNotna(x) ==
    CASE x.t \in {"int", "float"} -> TRUE
      [] x.t = "str" ->
            LET d == StrptimeText(x.s)
            IN  Len(x.s) = 10 /\ d.ok /\ d.y >= 1678 /\ d.y <= 2261
      [] OTHER -> FALSE

\* Rules of the form df[c].apply(f), and df[c].astype(str).apply(f).
AstypeApplyRules ==
    {"validate_origination_date", "validate_maturity_date",
     "validate_non_accrual_date", "validate_guarantor_internal_id",
     "validate_guarantor_name", "validate_guarantor_internal_risk_rating"}

SeriesOpRules ==
    IdRules \cup NonBlankRules \cup EnumTextRules \cup EnumNumberRules
        \cup {"validate_country", "validate_zip_code", "validate_industry_code",
              "validate_tin", "validate_cusip",
              "validate_original_credit_facility_id", "validate_guarantor_tin",
              "validate_entity_internal_id", "validate_entity_name"}

\* The dtype of the column a rule writes.
ResultDtype(rule, d, vals) ==
    IF Len(vals) > 0
    THEN (IF \A k \in 1..Len(vals) : vals[k].t = "bool" THEN "bool" ELSE "object")
    ELSE IF rule \in DescRules THEN "float64"
    ELSE IF rule \in DatetimeRules \cup SeriesOpRules THEN "bool"
    ELSE IF rule \in AstypeApplyRules THEN "object"
    ELSE d.dtype[SourceField(rule)]

RunRule(rule, d, now) ==
    LET src == SourceField(rule)
        out == OutputField(rule)
        n == Len(d.rows)
    IN  IF ~d.frame \/ src \notin d.cols THEN Raised(d)
        ELSE IF rule \in DescRules
        THEN LET gov == GoverningField(rule)
                 vals == [k \in 1..n |-> DescVerdict(d.rows[k][gov], d.rows[k][src])]
             IN  IF gov \notin d.cols THEN Raised(d)
                 ELSE IF \E k \in 1..n : DescRaises(d.rows[k][gov], d.rows[k][src])
                 THEN Raised(d)
                 ELSE Returned(SetColumn(d, out, vals, ResultDtype(rule, d, vals)))
        ELSE IF rule \in DatetimeRules
        THEN LET vals == [k \in 1..n |-> VBool(ToDatetimeNotna(d.rows[k][src]))]
             IN  Returned(SetColumn(d, out, vals, ResultDtype(rule, d, vals)))
        ELSE LET vals == [k \in 1..n |-> CellVerdict(rule, d.rows[k][src], now)]
             IN  Returned(SetColumn(d, out, vals, ResultDtype(rule, d, vals)))

\* apply_custom_rules(df): the argument is discarded and "" is returned.
apply_custom_rules(d) == NotAFrame

(***************************************************************************)
(* The uploads of the model: up to MaxRows rows, each one of SampleRows.   *)
(* A row gives the text of the generic fields, of the two to_datetime      *)
(* fields, of the two governing code fields and of the two descriptions.   *)
(***************************************************************************)
T_US == <<"U", "S">>

T_DATE == <<"2", "0", "2", "4", "-", "0", "1", "-", "1", "5">>

\* The day after Today0.
T_TOMORROW == <<"2", "0", "2", "5", "-", "0", "3", "-", "2", "6">>

CsvRow(g, d, c, s) == [gen |-> g, dt |-> d, code |-> c, desc |-> s]

SampleRows ==
    {CsvRow(T_US, T_DATE, <<"0">>, <<>>),
     CsvRow(<<"1">>, <<"7">>, <<"0">>, <<"x">>),
     CsvRow(<<>>, <<>>, <<"5">>, <<>>),
     CsvRow(T_TOMORROW, T_US, <<"5">>, <<"x">>),
     CsvRow(<<"1", ".", "5">>, T_DATE, <<"x">>, <<" ">>),
     CsvRow(T_NA, <<>>, <<"0">>, <<" ">>),
     CsvRow(<<"-", "1">>, <<"7">>, <<"5">>, <<"x">>),
     CsvRow(T_OPEN_MATURITY, T_DATE, <<"0">>, <<>>),
     CsvRow(<<"U", "S", "LF">>, T_DATE, <<"5">>, <<"x">>),
     CsvRow(<<"n", "a">>, <<>>, <<"0">>, <<"x">>)}

Uploads == UNION {[1..n -> SampleRows] : n \in 0..MaxRows}

\* The date at which the model starts.
Today0 == [y |-> 2025, m |-> 3, d |-> 25]

\* Every rule function of the module: the registry, then validate_zip_code,
\* which the registry does not hold.
AllRulesSeq == CORPORATE_LOAN_RULES \o <<"validate_zip_code">>

(***************************************************************************)
(* The def statements of corporate_loan_rules.py in the order the import   *)
(* executes them, each with the line it starts at.  A def binds its name   *)
(* in the module, whatever the name was bound to.                          *)
(***************************************************************************)
ModuleDefs ==
    <<
      <<"validate_customer_id", 18>>, <<"validate_internal_id", 27>>,
      <<"validate_original_internal_id", 36>>,
      <<"validate_obligor_name", 45>>, <<"validate_city", 54>>,
      <<"validate_country", 62>>, <<"validate_zip_code", 71>>,
      <<"validate_industry_code", 80>>,
      <<"validate_industry_code_type", 89>>,
      <<"validate_internal_risk_rating", 97>>, <<"validate_tin", 108>>,
      <<"validate_stock_exchange", 118>>, <<"validate_ticker_symbol", 127>>,
      <<"validate_cusip", 136>>,
      <<"validate_internal_credit_facility_id", 146>>,
      <<"validate_original_credit_facility_id", 156>>,
      <<"validate_origination_date", 167>>,
      <<"validate_maturity_date", 182>>,
      <<"validate_credit_facility_type", 196>>,
      <<"validate_other_credit_facility_type_desc", 203>>,
      <<"validate_credit_facility_purpose", 213>>,
      <<"validate_other_credit_facility_purpose_desc", 220>>,
      <<"validate_committed_exposure", 230>>,
      <<"validate_utilized_exposure", 237>>,
      <<"validate_line_reported_on_fry9c", 244>>,
      <<"validate_line_of_business", 251>>,
      <<"validate_cumulative_chargeoffs", 258>>,
      <<"validate_days_past_due", 267>>,
      <<"validate_non_accrual_date", 277>>,
      <<"validate_participation_flag", 290>>,
      <<"validate_lien_position", 305>>, <<"validate_security_type", 324>>,
      <<"validate_interest_rate_variability", 340>>,
      <<"validate_interest_rate", 346>>,
      <<"validate_interest_rate_index", 360>>,
      <<"validate_interest_rate_spread", 366>>,
      <<"validate_interest_rate_ceiling", 379>>,
      <<"validate_interest_rate_floor", 394>>,
      <<"validate_tax_status", 409>>, <<"validate_tax_status", 414>>,
      <<"validate_guarantor_internal_id", 419>>,
      <<"validate_guarantor_name", 425>>, <<"validate_guarantor_tin", 431>>,
      <<"validate_guarantor_internal_risk_rating", 437>>,
      <<"validate_entity_internal_id", 442>>,
      <<"validate_entity_name", 448>>,
      <<"validate_entity_internal_risk_rating", 457>>,
      <<"validate_date_financials", 465>>,
      <<"validate_date_last_audit", 473>>,
      <<"validate_net_sales_current", 481>>,
      <<"validate_net_sales_prior_year", 489>>,
      <<"validate_operating_income", 496>>,
      <<"validate_depreciation_amortization", 503>>,
      <<"validate_interest_expense", 511>>,
      <<"validate_net_income_current", 519>>,
      <<"validate_net_income_prior_year", 527>>,
      <<"validate_cash_marketable_securities", 536>>,
      <<"validate_accounts_receivable_current", 544>>,
      <<"validate_accounts_receivable_prior_year", 552>>,
      <<"validate_inventory_current", 560>>,
      <<"validate_inventory_prior_year", 568>>,
      <<"validate_current_assets_current", 576>>,
      <<"validate_current_assets_prior_year", 584>>,
      <<"validate_tangible_assets", 592>>, <<"validate_fixed_assets", 600>>,
      <<"validate_total_assets_current", 608>>,
      <<"validate_total_assets_prior_year", 616>>,
      <<"validate_accounts_payable_current", 624>>,
      <<"validate_accounts_payable_prior_year", 632>>,
      <<"validate_short_term_debt", 640>>,
      <<"validate_current_maturities_long_term_debt", 648>>,
      <<"validate_current_liabilities_current", 656>>,
      <<"validate_current_liabilities_prior_year", 664>>,
      <<"validate_long_term_debt", 672>>,
      <<"validate_minority_interest", 680>>,
      <<"validate_total_liabilities", 688>>,
      <<"validate_retained_earnings", 696>>,
      <<"validate_capital_expenditures", 704>>,
      <<"validate_special_purpose_entity_flag", 711>>,
      <<"validate_locom_flag", 718>>,
      <<"validate_snc_internal_credit_id", 725>>,
      <<"validate_probability_of_default", 732>>,
      <<"validate_loss_given_default", 748>>,
      <<"validate_exposure_at_default", 763>>,
      <<"validate_renewal_date", 773>>,
      <<"validate_credit_facility_currency", 782>>,
      <<"validate_collateral_market_value", 789>>,
      <<"validate_prepayment_penalty_flag", 796>>,
      <<"validate_entity_industry_code", 803>>,
      <<"validate_participation_interest", 810>>,
      <<"validate_leveraged_loan_flag", 825>>,
      <<"validate_disposition_flag", 832>>,
      <<"validate_disposition_schedule_shift", 839>>,
      <<"validate_syndicated_loan_flag", 846>>,
      <<"validate_target_hold", 854>>, <<"validate_asc326_20", 863>>,
      <<"validate_pcd_noncredit_discount", 870>>,
      <<"validate_current_maturity_date", 877>>,
      <<"validate_committed_exposure_global_par", 890>>,
      <<"validate_utilized_exposure_global_par", 899>>,
      <<"validate_committed_exposure_global_fair", 908>>,
      <<"validate_utilized_exposure_global_fair", 917>>,
      <<"validate_obligor_lei", 929>>, <<"validate_psr_lei", 936>>
    >>

\* The module once every def has been executed: each name is bound to the
\* last def of that name.
LoadedModule ==
    [n \in {ModuleDefs[k][1] : k \in DOMAIN ModuleDefs} |->
        LET K == {k \in DOMAIN ModuleDefs : ModuleDefs[k][1] = n}
        IN  ModuleDefs[CHOOSE k \in K : \A h \in K : h <= k][2]]

(***************************************************************************)
(* The state.  upload is the file, df the DataFrame, pc the statement of   *)
(* the script ("rules", "custom", "risk"; "applied" after a single rule),  *)
(* i the position in the registry, status "running" or "crashed" (an       *)
(* uncaught exception), today the date.  pass counts the validation        *)
(* passes, first keeps the DataFrame the first pass produced and seen the  *)
(* day on which each pass ran validate_origination_date (0: not yet).      *)
(* OPENAI_API_KEY tells whether os.getenv found the key (it is None        *)
(* otherwise, and where the script does not run).                          *)
(***************************************************************************)
Init ==
    /\ OPENAI_API_KEY \in BOOLEAN
    /\ module = LoadedModule
    /\ registry = CORPORATE_LOAN_RULES
    /\ upload \in Uploads
    /\ df = ReadCsv(upload)
    /\ pc = "rules"
    /\ i = 1
    /\ status = "running"
    /\ today = Today0
    /\ pass = 1
    /\ first = NotAFrame
    /\ seen = <<0, 0>>

\* One iteration of "for rule in CORPORATE_LOAN_RULES: df = rule(df)"; the
\* last one leaves the loop.
ApplyRule ==
    /\ status = "running"
    /\ pc = "rules"
    /\ i <= Len(CORPORATE_LOAN_RULES)
    /\ LET rule == CORPORATE_LOAN_RULES[i]
           r == RunRule(rule, df, today)
       IN  IF r.ok
           THEN /\ df' = r.df
                /\ i' = i + 1
                /\ pc' = IF i = Len(CORPORATE_LOAN_RULES) THEN "custom" ELSE "rules"
                /\ status' = status
                /\ seen' = IF rule = "validate_origination_date"
                           THEN [seen EXCEPT ![pass] = today.d] ELSE seen
           ELSE /\ status' = "crashed"
                /\ UNCHANGED <<df, i, pc, seen>>
    /\ UNCHANGED <<OPENAI_API_KEY, module, registry, upload, today, pass, first>>

\* df = apply_custom_rules(df)
ApplyCustomRules ==
    /\ status = "running"
    /\ pc = "custom"
    /\ df' = apply_custom_rules(df)
    /\ pc' = "risk"
    /\ UNCHANGED <<OPENAI_API_KEY, module, registry, upload, i, status, today, pass, first, seen>>

\* The column the script writes the risk tier into.
Risk_Level == "Risk_Level"

\* The text the script writes when the key is not set (its leading cross
\* mark left out), held as a text of one element.
KeyNotSet == <<"OPENAI_API_KEY not set">>

\* df['Risk_Level'] = df.apply(score_risk, axis=1): df is the str that
\* apply_custom_rules returned, which has no apply (and the script neither
\* defines nor imports score_risk): the script stops with the exception.
\* The statements after it: with a key, suggest_remediation(row, llm), a
\* name the script neither defines nor imports; without one, the column
\* Remediation set to the fixed text.  Then the table is displayed.
RiskStep ==
    /\ status = "running"
    /\ pc = "risk"
    /\ LET scored == Raised(df)
           r == IF ~scored.ok THEN scored
                ELSE IF OPENAI_API_KEY THEN Raised(scored.df)
                ELSE Returned(SetColumn(scored.df, "Remediation",
                                        [k \in 1..Len(scored.df.rows) |-> VStr(KeyNotSet)],
                                        "object"))
       IN  /\ df' = r.df
           /\ status' = IF r.ok THEN "running" ELSE "crashed"
           /\ pc' = IF r.ok THEN "display" ELSE pc
    /\ UNCHANGED <<OPENAI_API_KEY, module, registry, upload, i, today, pass, first,
                   seen>>

\* Midnight passes.
Tick ==
    /\ today.d < Today0.d + MaxTicks
    /\ today' = [today EXCEPT !.d = @ + 1]
    /\ UNCHANGED <<OPENAI_API_KEY, module, registry, upload, df, pc, i, status, pass, first, seen>>

Next == ApplyRule \/ ApplyCustomRules \/ RiskStep \/ Tick

Spec == Init /\ [][Next]_vars

\* A second pass of the registry over the DataFrame the first pass annotated.
Rerun ==
    /\ status = "running"
    /\ pc = "custom"
    /\ pass = 1
    /\ first' = df
    /\ pass' = 2
    /\ i' = 1
    /\ pc' = "rules"
    /\ UNCHANGED <<OPENAI_API_KEY, module, registry, upload, df, status, today, seen>>

NextRerun == ApplyRule \/ Rerun \/ Tick

SpecRerun == Init /\ [][NextRerun]_vars

\* A variant of the second run that keeps the annotated DataFrame instead of
\* reading the file again (used to test the sensitivity of C7).
RestartAnnotated ==
    /\ status = "running"
    /\ pc = "custom"
    /\ pass = 1
    /\ first' = df
    /\ df' = df
    /\ pass' = 2
    /\ i' = 1
    /\ pc' = "rules"
    /\ UNCHANGED <<OPENAI_API_KEY, module, registry, upload, status, today, seen>>

\* The script runs again on the same file: the file is read again and the
\* registry applied to the fresh DataFrame.
Restart ==
    /\ status = "running"
    /\ pc = "custom"
    /\ pass = 1
    /\ first' = df
    /\ df' = ReadCsv(upload)
    /\ pass' = 2
    /\ i' = 1
    /\ pc' = "rules"
    /\ UNCHANGED <<OPENAI_API_KEY, module, registry, upload, status, today, seen>>

NextTwice == ApplyRule \/ Restart \/ Tick

SpecTwice == Init /\ [][NextTwice]_vars

\* One rule function called on the DataFrame as read, as the tests call it.
ApplyOneRule ==
    /\ status = "running"
    /\ pc = "rules"
    /\ \E k \in 1..Len(AllRulesSeq) :
          LET r == RunRule(AllRulesSeq[k], df, today)
          IN  /\ i' = k
              /\ pc' = "applied"
              /\ df' = r.df
              /\ status' = IF r.ok THEN "running" ELSE "crashed"
    /\ UNCHANGED <<OPENAI_API_KEY, module, registry, upload, today, pass, first, seen>>

NextRule == ApplyOneRule \/ Tick

SpecRule == Init /\ [][NextRule]_vars

(***************************************************************************)
(* The functions of custom_rules.py, risk_scoring.py and remediation.py.   *)
(* The script calls none of them but apply_custom_rules; the tests call    *)
(* each on a DataFrame of its own.  Here they are applied to a DataFrame   *)
(* read from a file with the columns the custom rules read and three of    *)
(* the columns of corporate_loan_rules.py.                                 *)
(***************************************************************************)
\* The uploads: up to MaxRows rows, each a sample of cell texts.
CustomUploads ==
    LET Samples == {
         [amount |-> <<"1", "0", "0">>, reported |-> <<"1", "0", "1">>, currency |-> <<"U", "S", "D">>, date |-> <<"2", "0", "2", "4", "-", "0", "1", "-", "1", "5">>, country |-> <<"U", "S">>, zip |-> <<"1", "2", "3", "4", "5">>],
         [amount |-> <<"1", "0", "0">>, reported |-> <<"1", "0", "2">>, currency |-> <<"U", "S", "D">>, date |-> <<"2", "0", "2", "4", "-", "0", "1", "-", "1", "5">>, country |-> <<"U", "S">>, zip |-> <<"1", "2", "3", "4", "5">>],
         [amount |-> <<"3", "0">>, reported |-> <<"3", "0", ".", "3">>, currency |-> <<"U", "S", "D">>, date |-> <<"2", "0", "2", "4", "-", "0", "1", "-", "1", "5">>, country |-> <<"U", "S">>, zip |-> <<"1", "2", "3", "4", "5">>],
         [amount |-> <<"6", "0", "0", "0">>, reported |-> <<"6", "0", "0", "0">>, currency |-> <<"U", "S", "D">>, date |-> <<"2", "0", "2", "4", "-", "0", "1", "-", "1", "5">>, country |-> <<"U", "S">>, zip |-> <<"1", "2", "3", "4", "5">>],
         [amount |-> <<"1", "0", "0">>, reported |-> <<"1", "0", "0">>, currency |-> <<"U", "S", "D">>, date |-> <<"2", "0", "2", "4", "-", "0", "1", "-", "1", "5">>, country |-> <<"U", "S">>, zip |-> <<"1", "2", "3", "4", "5">>],
         [amount |-> <<"6", "0", "0", "0">>, reported |-> <<"6", "0", "0", "0">>, currency |-> <<"u", "s">>, date |-> <<"2", "1", "0", "0", "-", "0", "1", "-", "0", "1">>, country |-> <<"U", "S", "A">>, zip |-> <<"1", "2", "3", "4">>],
         [amount |-> <<"5", "0", "0", "0">>, reported |-> <<"4", "0", "0", "0">>, currency |-> <<"U", "S", "D">>, date |-> <<"2", "0", "2", "5", "-", "0", "3", "-", "2", "6">>, country |-> <<"u", "s">>, zip |-> <<"1", "2", "3", "4", "5", "6">>],
         [amount |-> <<"6", "0", "0", "0">>, reported |-> <<"6", "0", "0", "0">>, currency |-> <<"U", "S", "D", "LF">>, date |-> <<"0">>, country |-> <<"U", "S", "LF">>, zip |-> <<"1", "2", "3", "4", "5">>],
         [amount |-> <<"6", "0", "0", "0">>, reported |-> <<"1", "0", "0">>, currency |-> <<"U", "S", "D">>, date |-> <<"2", "0", "2", "4", "-", "0", "1", "-", "1", "5">>, country |-> <<"U", "S">>, zip |-> <<"1", "2", "3", "4", "5">>],
         [amount |-> <<>>, reported |-> <<>>, currency |-> <<>>, date |-> <<>>, country |-> <<>>, zip |-> <<>>],
         [amount |-> <<"1", "0", "0">>, reported |-> <<"1", "0", "0">>, currency |-> <<"U", "S", "D">>, date |-> <<"2", "1", "0", "0", "-", "0", "1", "-", "0", "1">>, country |-> <<"U", "S">>, zip |-> <<"1", "2", "3", "4", "5">>]}
    IN  UNION {[1..n -> Samples] : n \in 0..MaxRows}

\* pd.read_csv of such a file.
ReadCustomCsv(up) ==
    LET n == Len(up)
        field == [Transaction_Amount |-> "amount", Reported_Amount |-> "reported",
                  Currency |-> "currency", Transaction_Date |-> "date",
                  Origination_Date |-> "date", Country |-> "country",
                  Zip_Code |-> "zip"]
        dts == [c \in DOMAIN field |-> InferDtype([k \in 1..n |-> up[k][field[c]]])]
    IN  [frame |-> TRUE,
         cols |-> DOMAIN field,
         dtype |-> dts,
         index |-> [k \in 1..n |-> k - 1],
         rows |-> [k \in 1..n |->
                     [c \in DOMAIN field |-> ConvertCell(up[k][field[c]], dts[c])]]]

\* The float64 arithmetic of validate_transaction_amount where it does not
\* give the exact result.  The amounts are decimals of one fractional digit,
\* held in tenths.  Away from the bound the rounding of a - r and of
\* a * 0.01 never changes the comparison; on the bound (a = 10k, r = a + k/10
\* or a - k/10) it does for the k listed here: abs(a - r) is rounded to more
\* than a * 0.01, as for 30 and 30.3, where a - r is 0.3000000000000007 and
\* a * 0.01 is 0.3.  For whole numbers a and r (k a multiple of 10) it never
\* does.  The list holds every such k for amounts up to 6000, the largest
\* amount of the uploads.
RoundedOver(x, y) ==
    LET Above == {
            3, 6, 7, 9, 12, 13, 14, 18, 19, 23, 24, 26, 28, 31, 33, 36, 38, 41, 43,
            46, 48, 51, 52, 56, 57, 61, 62, 66, 67, 71, 72, 76, 77, 81, 82, 86, 87,
            91, 92, 96, 97, 101, 102, 104, 107, 109, 112, 114, 117, 119, 122, 124,
            127, 129, 132, 134, 137, 139, 142, 144, 147, 149, 152, 154, 157, 159,
            162, 164, 167, 169, 172, 174, 177, 179, 182, 184, 187, 189, 192, 194,
            197, 199, 202, 203, 204, 208, 209, 213, 214, 218, 219, 223, 224, 228,
            229, 233, 234, 238, 239, 243, 244, 248, 249, 253, 254, 258, 259, 263,
            264, 268, 269, 273, 274, 278, 279, 283, 284, 288, 289, 293, 294, 298,
            299, 303, 304, 308, 309, 313, 314, 318, 319, 323, 324, 328, 329, 333,
            334, 338, 339, 343, 344, 348, 349, 353, 354, 358, 359, 363, 364, 368,
            369, 373, 374, 378, 379, 383, 384, 388, 389, 393, 394, 398, 399, 403,
            404, 406, 408, 411, 413, 416, 418, 421, 423, 426, 428, 431, 433, 436,
            438, 441, 443, 446, 448, 451, 453, 456, 458, 461, 463, 466, 468, 471,
            473, 476, 478, 481, 483, 486, 488, 491, 493, 496, 498, 501, 503, 506,
            508, 511, 513, 516, 518, 521, 523, 526, 528, 531, 533, 536, 538, 541,
            543, 546, 548, 551, 553, 556, 558, 561, 563, 566, 568, 571, 573, 576,
            578, 581, 583, 586, 588, 591, 593, 596, 598}
        Below == (Above \ {203, 406, 411}) \cup {409}
    IN  \E k \in 1..600 : /\ x = 100 * k
                          /\ \/ y = x + k /\ k \in Above
                             \/ y = x - k /\ k \in Below

\* (df["Transaction_Amount"] - df["Reported_Amount"]).abs()
\*     <= df["Transaction_Amount"] * 0.01
\* on two numeric columns; a comparison with NaN is False.  A str cannot be
\* subtracted (TypeError).
validate_transaction_amount(d) ==
    LET a == "Transaction_Amount"
        r == "Reported_Amount"
        Abs(x) == IF x < 0 THEN 0 - x ELSE x
        vals == [k \in 1..Len(d.rows) |->
                    LET x == d.rows[k][a]
                        y == d.rows[k][r]
                    IN  VBool(/\ x.t # "nan" /\ y.t # "nan"
                              /\ 100 * Abs(Tenths(x) - Tenths(y)) <= Tenths(x)
                              /\ ~RoundedOver(Tenths(x), Tenths(y)))]
    IN  IF ~d.frame \/ ~({a, r} \subseteq d.cols) THEN Raised(d)
        ELSE IF \E k \in 1..Len(d.rows) : "str" \in {d.rows[k][a].t, d.rows[k][r].t}
        THEN Raised(d)
        ELSE Returned(SetColumn(d, "Valid_Transaction", vals, "bool"))

\* bool(re.match(r"^[A-Z]{3}$", x)) of a cell of df["Currency"].astype(str)
validate_currency_format(x) == VBool(ClassPattern(StrOf(x), UpperAZ, 3, 3))

\* pd.to_datetime(cell, errors='coerce') <= pd.to_datetime(today): NaT
\* compares False; a number is a time since 1970.
validate_transaction_date(x, now) ==
    VBool(/\ ToDatetimeNotna(x)
          /\ x.t = "str" => NotAfter(StrptimeText(x.s), now))

CUSTOM_RULES ==
    <<"validate_transaction_amount", "validate_currency_format",
      "validate_transaction_date">>

\* The values score returns.
Tier ==
    [HIGH |-> <<"H", "I", "G", "H">>,
     MEDIUM |-> <<"M", "E", "D", "I", "U", "M">>,
     LOW |-> <<"L", "O", "W">>]

\* row.get(c, default) of a row of d
RowGet(d, k, c, default) == IF c \in d.cols THEN d.rows[k][c] ELSE default

\* Python's "not v"
PyNot(v) ==
    \/ v \in {VFalse, VNone}
    \/ v.t \in {"int", "float"} /\ v.n = 0
    \/ v.t = "str" /\ v.s = <<>>

\* A variant of assign_risk_score that tests the verdicts before the amount
\* (used to test the sensitivity of C17).
assign_risk_score_verdicts_first(d) ==
    LET score(k) ==
            IF \/ PyNot(RowGet(d, k, "Valid_Transaction", VTrue))
               \/ PyNot(RowGet(d, k, "Valid_Currency", VTrue))
            THEN VStr(Tier.MEDIUM)
            ELSE IF Tenths(RowGet(d, k, "Transaction_Amount", VInt(0))) > 50000
            THEN VStr(Tier.HIGH)
            ELSE VStr(Tier.LOW)
    IN  Returned(SetColumn(d, "Risk_Score", [k \in 1..Len(d.rows) |-> score(k)],
                           IF d.rows = <<>> THEN "float64" ELSE "object"))

\* df["Risk_Score"] = df.apply(score, axis=1).  A str amount cannot be
\* compared with 5000 (TypeError); NaN > 5000 is False.  apply on a frame
\* with no rows gives an empty float64 Series.
assign_risk_score(d) ==
    LET amount(k) == RowGet(d, k, "Transaction_Amount", VInt(0))
        score(k) ==
            IF amount(k).t # "nan" /\ Tenths(amount(k)) > 50000 THEN VStr(Tier.HIGH)
            ELSE IF \/ PyNot(RowGet(d, k, "Valid_Transaction", VTrue))
                    \/ PyNot(RowGet(d, k, "Valid_Currency", VTrue))
            THEN VStr(Tier.MEDIUM)
            ELSE VStr(Tier.LOW)
    IN  IF ~d.frame \/ \E k \in 1..Len(d.rows) : amount(k).t \in {"str", "none", "match"}
        THEN Raised(d)
        ELSE Returned(SetColumn(d, "Risk_Score",
                                [k \in 1..Len(d.rows) |-> score(k)],
                                IF d.rows = <<>> THEN "float64" ELSE "object"))

\* The messages get_remedy returns; a message is held as a text of one
\* element.
Remedy ==
    [currency |-> <<"Fix currency format to ISO 4217.">>,
     amount |-> <<"Adjust Transaction_Amount to match Reported_Amount.">>,
     date |-> <<"Correct the Transaction_Date (can't be in future).">>,
     audit |-> <<"Manual audit required due to high amount.">>,
     none |-> <<"No action needed.">>]

\* A variant of suggest_remediation that tests the risk score first (used
\* to test the sensitivity of C18).
suggest_remediation_risk_first(d) ==
    LET get_remedy(k) ==
            IF PyEq(RowGet(d, k, "Risk_Score", VNone), Tier.HIGH) THEN VStr(Remedy.audit)
            ELSE IF PyNot(RowGet(d, k, "Valid_Currency", VTrue)) THEN VStr(Remedy.currency)
            ELSE IF PyNot(RowGet(d, k, "Valid_Transaction", VTrue)) THEN VStr(Remedy.amount)
            ELSE IF PyNot(RowGet(d, k, "Valid_Transaction_Date", VTrue))
            THEN VStr(Remedy.date)
            ELSE VStr(Remedy.none)
    IN  Returned(SetColumn(d, "Remediation",
                           [k \in 1..Len(d.rows) |-> get_remedy(k)],
                           IF d.rows = <<>> THEN "float64" ELSE "object"))

\* df["Remediation"] = df.apply(get_remedy, axis=1)
suggest_remediation(d) ==
    LET get_remedy(k) ==
            IF PyNot(RowGet(d, k, "Valid_Currency", VTrue)) THEN VStr(Remedy.currency)
            ELSE IF PyNot(RowGet(d, k, "Valid_Transaction", VTrue)) THEN VStr(Remedy.amount)
            ELSE IF PyNot(RowGet(d, k, "Valid_Transaction_Date", VTrue))
            THEN VStr(Remedy.date)
            ELSE IF PyEq(RowGet(d, k, "Risk_Score", VNone), Tier.HIGH) THEN VStr(Remedy.audit)
            ELSE VStr(Remedy.none)
    IN  IF ~d.frame THEN Raised(d)
        ELSE Returned(SetColumn(d, "Remediation",
                                [k \in 1..Len(d.rows) |-> get_remedy(k)],
                           IF d.rows = <<>> THEN "float64" ELSE "object"))

(***************************************************************************)
(* The functions applied to a DataFrame as read: one rule function of      *)
(* corporate_loan_rules.py (ApplyOneRule); or some of the CUSTOM_RULES,    *)
(* then apply_custom_rules, or assign_risk_score and suggest_remediation.  *)
(* pc is "rules" for the DataFrame as read, "custom" once a custom rule    *)
(* has run, then "scored" and "remedied".  The date is the date of the     *)
(* run.                                                                    *)
(***************************************************************************)
InitCustom ==
    /\ OPENAI_API_KEY = FALSE
    /\ module = LoadedModule
    /\ registry = CORPORATE_LOAN_RULES
    /\ upload \in CustomUploads
    /\ df = ReadCustomCsv(upload)
    /\ pc = "rules"
    /\ i = 1
    /\ status = "running"
    /\ today \in {[Today0 EXCEPT !.d = @ + t] : t \in 0..MaxTicks}
    /\ pass = 1
    /\ first = NotAFrame
    /\ seen = <<0, 0>>

\* df = rule(df) for a rule of CUSTOM_RULES that has not run yet.
ApplyCustomRule ==
    /\ status = "running"
    /\ pc \in {"rules", "custom"}
    /\ \E k \in 1..Len(CUSTOM_RULES) :
          LET cell(c, f(_)) ==
                  IF c \in df.cols
                  THEN Returned(SetColumn(df, "Valid_" \o c,
                                   [j \in 1..Len(df.rows) |-> f(df.rows[j][c])], "bool"))
                  ELSE Raised(df)
              currency(x) == validate_currency_format(x)
              date(x) == validate_transaction_date(x, today)
              r == CASE k = 1 -> validate_transaction_amount(df)
                     [] k = 2 -> cell("Currency", currency)
                     [] k = 3 -> cell("Transaction_Date", date)
          IN  /\ <<"Valid_Transaction", "Valid_Currency", "Valid_Transaction_Date">>[k]
                    \notin df.cols
              /\ df' = r.df
              /\ status' = IF r.ok THEN "running" ELSE "crashed"
              /\ i' = k
    /\ pc' = "custom"
    /\ UNCHANGED <<OPENAI_API_KEY, module, registry, upload, today, pass, first, seen>>

\* df = assign_risk_score(df)
AssignRiskScore ==
    /\ status = "running"
    /\ pc \in {"rules", "custom"}
    /\ LET r == assign_risk_score(df)
       IN  df' = r.df /\ status' = IF r.ok THEN "running" ELSE "crashed"
    /\ pc' = "scored"
    /\ UNCHANGED <<OPENAI_API_KEY, module, registry, upload, i, today, pass, first, seen>>

\* df = suggest_remediation(df)
SuggestRemediation ==
    /\ status = "running"
    /\ pc \in {"rules", "custom", "scored"}
    /\ LET r == suggest_remediation(df)
       IN  df' = r.df /\ status' = IF r.ok THEN "running" ELSE "crashed"
    /\ pc' = "remedied"
    /\ UNCHANGED <<OPENAI_API_KEY, module, registry, upload, i, today, pass, first, seen>>

NextCustom ==
    \/ ApplyOneRule
    \/ ApplyCustomRule
    \/ ApplyCustomRules
    \/ AssignRiskScore
    \/ SuggestRemediation

SpecCustom == InitCustom /\ [][NextCustom]_vars

(***************************************************************************)
(* The import of corporate_loan_rules.py: CORPORATE_LOAN_RULES = [], then  *)
(* the def statements one after the other (i is the next one), then        *)
(* CORPORATE_LOAN_RULES.extend([...]).  A name bound to 0 is not bound     *)
(* yet.  No row is read before the import has ended (pc = "loaded").       *)
(***************************************************************************)
InitLoad ==
    /\ OPENAI_API_KEY = FALSE
    /\ module = [n \in DOMAIN LoadedModule |-> 0]
    /\ registry = <<>>
    /\ upload \in Uploads
    /\ df = NotAFrame
    /\ pc = "def"
    /\ i = 1
    /\ status = "running"
    /\ today = Today0
    /\ pass = 1
    /\ first = NotAFrame
    /\ seen = <<0, 0>>

\* def validate_...(df): the name is bound to the new function.
Define ==
    /\ pc = "def"
    /\ module' = [module EXCEPT ![ModuleDefs[i][1]] = ModuleDefs[i][2]]
    /\ i' = i + 1
    /\ pc' = IF i = Len(ModuleDefs) THEN "extend" ELSE "def"
    /\ UNCHANGED <<OPENAI_API_KEY, registry, upload, df, status, today, pass,
                   first, seen>>

\* CORPORATE_LOAN_RULES.extend([...]): the names of the list are looked up
\* in the module and appended.
Extend ==
    /\ pc = "extend"
    /\ registry' = registry \o CORPORATE_LOAN_RULES
    /\ pc' = "loaded"
    /\ UNCHANGED <<OPENAI_API_KEY, module, upload, df, i, status, today, pass,
                   first, seen>>

NextLoad == Define \/ Extend

SpecLoad == InitLoad /\ [][NextLoad]_vars

(***************************************************************************)
(* Properties.                                                             *)
(***************************************************************************)
\* The DataFrame as it was read, before any rule.
Raw == ReadCsv(upload)

Registry == CORPORATE_LOAN_RULES

\* The registry positions the current pass has applied.
AppliedRules == 1..(i - 1)

\* The cell is one for which the rule's except clause is taken: strptime or
\* float raises on it (and no "NA" test returned before the try).
ExceptTaken(rule, x) ==
    CASE rule \in {"validate_origination_date", "validate_maturity_date",
                   "validate_non_accrual_date"} -> ~StrptimeText(StrOf(x)).ok
      [] rule = "validate_current_maturity_date" -> ~Strptime(x).ok
      [] rule \in {"validate_interest_rate", "validate_participation_interest",
                   "validate_interest_rate_spread"} ->
            Upper(Strip(StrOf(x))) # T_NA /\ ~PyFloat(x).ok
      [] rule \in {"validate_probability_of_default", "validate_loss_given_default"} ->
            Upper(StrOf(x)) # T_NA /\ ~PyFloat(x).ok
      [] rule \in {"validate_interest_rate_ceiling", "validate_interest_rate_floor"} ->
            /\ Upper(Strip(StrOf(x))) \notin {T_NA, T_NONE}
            /\ ~FloatOfText(Upper(Strip(StrOf(x)))).ok
      [] OTHER -> FALSE

VerdictColumns == {OutputField(Registry[j]) : j \in 1..Len(Registry)}

\* C2: the pipeline runs validation, custom rules, risk scoring and
\* remediation without stopping, and after the custom rules the table still
\* holds the input rows and the verdict columns.
C2_PipelineEndsWithOutput ==
    /\ status = "running"
    /\ pc = "risk" =>
          /\ df.frame
          /\ Len(df.rows) = Len(upload)
          /\ VerdictColumns \subseteq df.cols

\* C3: a pass of the registry over the DataFrame an earlier pass annotated
\* gives, for every row and output field, the verdict of the first pass.
C3_RerunSameVerdicts ==
    pass = 2 =>
        /\ status = "running"
        /\ \A j \in AppliedRules :
              ColumnOf(df, OutputField(Registry[j]))
                  = ColumnOf(first, OutputField(Registry[j]))

\* C4: when an other-description rule is about to run in a full pass, its
\* governing code field still holds the raw codes.
C4_GoverningRawAtDescRule ==
    (pc = "rules" /\ status = "running" /\ i <= Len(Registry)
        /\ Registry[i] \in DescRules)
    => ColumnOf(df, GoverningField(Registry[i]))
          = ColumnOf(Raw, GoverningField(Registry[i]))

\* The description holds something: a text that is not blank.
DescNonEmpty(x) == x.t = "str" /\ Strip(x.s) # <<>>

\* C5: the other-description verdict is true iff the governing code is not
\* "0", or it is "0" and the description is non-empty.
C5_DescVerdict ==
    df.frame =>
        \A j \in AppliedRules :
            Registry[j] \in DescRules =>
                \A k \in 1..Len(df.rows) :
                    LET rule == Registry[j]
                        g == Raw.rows[k][GoverningField(rule)]
                        desc == Raw.rows[k][SourceField(rule)]
                    IN  (df.rows[k][OutputField(rule)] = VTrue)
                            <=> (StrOf(g) # <<"0">> \/ DescNonEmpty(desc))

\* The rules whose field documents the literal "NA" as a valid value.
NaDocumented ==
    {"validate_tin", "validate_stock_exchange", "validate_ticker_symbol",
     "validate_cusip", "validate_cumulative_chargeoffs", "validate_interest_rate",
     "validate_interest_rate_spread", "validate_interest_rate_ceiling",
     "validate_interest_rate_floor", "validate_guarantor_internal_id",
     "validate_guarantor_name", "validate_guarantor_tin",
     "validate_guarantor_internal_risk_rating", "validate_minority_interest",
     "validate_collateral_market_value", "validate_exposure_at_default",
     "validate_snc_internal_credit_id", "validate_probability_of_default",
     "validate_loss_given_default", "validate_participation_interest",
     "validate_disposition_schedule_shift", "validate_target_hold",
     "validate_committed_exposure_global_par",
     "validate_utilized_exposure_global_par",
     "validate_committed_exposure_global_fair",
     "validate_utilized_exposure_global_fair", "validate_obligor_lei",
     "validate_psr_lei"}

\* C6: where a rule's source value is missing (an empty cell or an NA
\* marker of the table) the verdict is false, unless the field documents
\* "NA" as valid.
C6_MissingIsFalse ==
    df.frame =>
        \A j \in AppliedRules :
            (Registry[j] \notin NaDocumented \cup DescRules) =>
                \A k \in 1..Len(df.rows) :
                    Raw.rows[k][SourceField(Registry[j])] = VNaN
                        => ~Truthy(df.rows[k][OutputField(Registry[j])])

C8_RowsKeepOrder ==
    df.frame =>
        LET raw == Raw
            written == {OutputField(Registry[j]) : j \in AppliedRules}
        IN  /\ Len(df.rows) = Len(upload)
            /\ df.index = raw.index
            /\ \A k \in 1..Len(raw.rows) :
                  \A c \in InputColumns \ written : df.rows[k][c] = raw.rows[k][c]
            /\ \A j \in AppliedRules :
                  (Registry[j] \in CellRules \ {"validate_origination_date"}) =>
                      \A k \in 1..Len(raw.rows) :
                          df.rows[k][OutputField(Registry[j])]
                              = CellVerdict(Registry[j],
                                            raw.rows[k][SourceField(Registry[j])], today)
            /\ pc = "custom" => VerdictColumns \subseteq df.cols

\* C8 witness: a pass has ended on two different rows.
C8_Witness ==
    /\ pc = "custom" /\ status = "running"
    /\ Len(df.rows) = 2
    /\ upload[1] # upload[2]
    /\ df.rows[1]["Country"] # df.rows[2]["Country"]

\* C9: a rule function changes no column but its output field and keeps the
\* rows; when it returns, the output field holds a verdict for every row.
C9_OneColumnWritten ==
    pc = "applied" =>
        LET out == OutputField(AllRulesSeq[i])
            raw == Raw
        IN  /\ Len(df.rows) = Len(raw.rows)
            /\ df.index = raw.index
            /\ df.cols \subseteq raw.cols \cup {out}
            /\ raw.cols \ {out} \subseteq df.cols
            /\ \A k \in 1..Len(raw.rows) :
                  \A c \in raw.cols \ {out} : df.rows[k][c] = raw.rows[k][c]
            /\ status = "running" =>
                  /\ out \in df.cols
                  /\ \A k \in 1..Len(df.rows) :
                        df.rows[k][out].t \in {"bool", "none", "match"}

\* C9 witness: validate_accounts_receivable_current has returned on two rows.
C9_Witness ==
    /\ pc = "applied" /\ status = "running"
    /\ AllRulesSeq[i] = "validate_accounts_receivable_current"
    /\ Len(df.rows) = 2
    /\ "AR_Current" \in df.cols

\* C10: the verdict of an enumerated-code rule is true iff the string form
\* of the raw value is one of the rule's allowed codes, for a raw value that
\* arrives as text and for one that arrives as a number.
C10_EnumVerdict ==
    (pc = "applied" /\ status = "running"
        /\ AllRulesSeq[i] \in EnumTextRules \cup EnumNumberRules)
    => \A k \in 1..Len(df.rows) :
          LET rule == AllRulesSeq[i]
          IN  (df.rows[k][OutputField(rule)] = VTrue)
                  <=> (\E c \in AllowedCodes(rule) :
                          StrOf(Raw.rows[k][SourceField(rule)]) = IntToStr(c))

\* C11: the verdict of a date-field rule is true iff the value is a text
\* that parses as a YYYY-MM-DD date or is the sentinel the field documents
\* (none for the two financial-statement dates).
C11_DateFieldVerdict ==
    LET DateFieldRules ==
            {"validate_maturity_date", "validate_non_accrual_date",
             "validate_renewal_date", "validate_current_maturity_date",
             "validate_date_financials", "validate_date_last_audit"}
        IsSentinel(rule, s) ==
            \/ rule \in {"validate_maturity_date", "validate_current_maturity_date"}
                  /\ s = T_OPEN_MATURITY
            \/ rule \in {"validate_non_accrual_date", "validate_renewal_date"}
                  /\ s = T_NOT_APPLICABLE
    IN  (pc = "applied" /\ status = "running" /\ AllRulesSeq[i] \in DateFieldRules)
        => LET rule == AllRulesSeq[i]
               raw == Raw
           IN  \A k \in 1..Len(df.rows) :
                  LET x == raw.rows[k][SourceField(rule)]
                  IN  Truthy(df.rows[k][OutputField(rule)])
                          <=> (x.t = "str"
                                /\ (StrptimeText(x.s).ok \/ IsSentinel(rule, x.s)))

\* C13: the verdict of an identifier or free-text rule is true iff the
\* string form of the value is non-empty and holds no control character,
\* carriage return, line feed or comma at any position, the last included.
C13_IdentifierVerdict ==
    LET IdentifierRules ==
            IdRules \cup {"validate_entity_internal_id", "validate_entity_name"}
    IN  (pc = "applied" /\ status = "running" /\ AllRulesSeq[i] \in IdentifierRules)
        => LET rule == AllRulesSeq[i]
               raw == Raw
           IN  \A k \in 1..Len(df.rows) :
                  LET s == StrOf(raw.rows[k][SourceField(rule)])
                  IN  (df.rows[k][OutputField(rule)] = VTrue)
                          <=> /\ Len(s) > 0
                              /\ \A j \in 1..Len(s) :
                                    s[j] \notin ControlChars \cup {","}

\* C15: the verdict of a non-negative numeric rule is true iff the value
\* parses as a number that is >= 0, or the uploaded cell is "NA" and the
\* field documents it; a negative number is never valid.
C15_NonNegativeVerdict ==
    LET NonNegativeRules ==
            {"validate_committed_exposure", "validate_utilized_exposure",
             "validate_days_past_due", "validate_committed_exposure_global_par",
             "validate_utilized_exposure_global_par",
             "validate_committed_exposure_global_fair",
             "validate_utilized_exposure_global_fair"} \cup DigitRules
    IN  (pc = "applied" /\ status = "running" /\ AllRulesSeq[i] \in NonNegativeRules)
        => LET rule == AllRulesSeq[i]
               raw == Raw
           IN  \A k \in 1..Len(df.rows) :
                  LET f == PyFloat(raw.rows[k][SourceField(rule)])
                  IN  Truthy(df.rows[k][OutputField(rule)])
                          <=> \/ f.ok /\ ~f.nan /\ f.n >= 0
                              \/ rule \in NaDocumented
                                    /\ upload[k][Group(SourceField(rule))] = T_NA

\* C16: the verdict of a bounded-ratio rule is true iff the uploaded cell is
\* "NA" or parses as a number r with 0 <= r <= 1.
C16_RatioVerdict ==
    LET RatioRules ==
            {"validate_probability_of_default", "validate_loss_given_default",
             "validate_interest_rate", "validate_participation_interest"}
    IN  (pc = "applied" /\ status = "running" /\ AllRulesSeq[i] \in RatioRules)
        => LET rule == AllRulesSeq[i]
           IN  \A k \in 1..Len(df.rows) :
                  LET cell == upload[k][Group(SourceField(rule))]
                      f == FloatOfText(cell)
                  IN  (df.rows[k][OutputField(rule)] = VTrue)
                          <=> (cell = T_NA \/ (f.ok /\ InUnitInterval(f)))

\* C12: the verdict of a rule that forbids future dates (Origination_Date,
\* and the custom rule writing Valid_Transaction_Date) is true iff the
\* uploaded value parses as a date and is not later than the current date.
C12_FutureDateVerdict ==
    LET Expected(k) ==
            LET d == StrptimeText(upload[k].date)
            IN  VBool(d.ok /\ NotAfter(d, today))
    IN  /\ (pc = "applied" /\ status = "running"
               /\ AllRulesSeq[i] = "validate_origination_date")
           => \A k \in 1..Len(df.rows) :
                 df.rows[k][OutputField("validate_origination_date")] = Expected(k)
        /\ (df.frame /\ "Valid_Transaction_Date" \in df.cols)
           => \A k \in 1..Len(df.rows) :
                 df.rows[k]["Valid_Transaction_Date"] = Expected(k)

\* C14: the verdict of a fixed-pattern code rule is true iff the whole
\* uploaded value matches the pattern and nothing else: Country iff exactly
\* two letters A-Z, Zip_Code iff exactly five digits, Currency iff exactly
\* three letters A-Z.
C14_CodeVerdict ==
    LET Exactly(s, C, n) == Len(s) = n /\ \A j \in 1..Len(s) : s[j] \in C
    IN  /\ (pc = "applied" /\ status = "running" /\ AllRulesSeq[i] = "validate_country")
           => \A k \in 1..Len(df.rows) :
                 df.rows[k]["Country"] = VBool(Exactly(upload[k].country, UpperAZ, 2))
        /\ (pc = "applied" /\ status = "running" /\ AllRulesSeq[i] = "validate_zip_code")
           => \A k \in 1..Len(df.rows) :
                 df.rows[k]["Zip_Code"] = VBool(Exactly(upload[k].zip, Digits, 5))
        /\ (df.frame /\ "Valid_Currency" \in df.cols)
           => \A k \in 1..Len(df.rows) :
                 df.rows[k]["Valid_Currency"]
                     = VBool(Exactly(upload[k].currency, UpperAZ, 3))

\* C17: assign_risk_score gives a row HIGH iff its Transaction_Amount is
\* above 5000, whatever its verdicts; otherwise MEDIUM iff Valid_Transaction
\* or Valid_Currency is false; otherwise LOW.
C17_RiskScore ==
    (df.frame /\ "Risk_Score" \in df.cols)
    => \A k \in 1..Len(df.rows) :
          LET row == df.rows[k]
              amount == row["Transaction_Amount"]
              above == amount.t \in {"int", "float"} /\ Tenths(amount) > 10 * 5000
              failed == \E c \in {"Valid_Transaction", "Valid_Currency"} :
                            c \in df.cols /\ row[c] = VFalse
          IN  row["Risk_Score"] = VStr(IF above THEN Tier.HIGH
                                       ELSE IF failed THEN Tier.MEDIUM
                                       ELSE Tier.LOW)

\* C17 witness: a scored dataset with a row above 5000 whose Valid_Currency
\* is false and that is HIGH, and a row of exactly 5000 whose
\* Valid_Transaction is false and that is MEDIUM.
C17_Witness ==
    /\ df.frame /\ {"Risk_Score", "Valid_Currency", "Valid_Transaction"} \subseteq df.cols
    /\ \E k \in 1..Len(df.rows) :
          /\ df.rows[k]["Transaction_Amount"] = VInt(6000)
          /\ df.rows[k]["Valid_Currency"] = VFalse
          /\ df.rows[k]["Risk_Score"] = VStr(Tier.HIGH)
    /\ \E k \in 1..Len(df.rows) :
          /\ df.rows[k]["Transaction_Amount"] = VInt(5000)
          /\ df.rows[k]["Valid_Transaction"] = VFalse
          /\ df.rows[k]["Risk_Score"] = VStr(Tier.MEDIUM)

\* C18: suggest_remediation gives a row the message of the first condition
\* that holds, in the order Valid_Currency false, Valid_Transaction false,
\* Valid_Transaction_Date false, Risk_Score = HIGH; and "No action needed."
\* when none holds.
C18_FirstRemedy ==
    (df.frame /\ "Remediation" \in df.cols)
    => \A k \in 1..Len(df.rows) :
          LET row == df.rows[k]
              False(c) == c \in df.cols /\ row[c] = VFalse
              high == "Risk_Score" \in df.cols /\ row["Risk_Score"] = VStr(Tier.HIGH)
          IN  row["Remediation"] =
                 VStr(CASE False("Valid_Currency") -> Remedy.currency
                        [] ~False("Valid_Currency") /\ False("Valid_Transaction")
                              -> Remedy.amount
                        [] ~False("Valid_Currency") /\ ~False("Valid_Transaction")
                              /\ False("Valid_Transaction_Date") -> Remedy.date
                        [] ~False("Valid_Currency") /\ ~False("Valid_Transaction")
                              /\ ~False("Valid_Transaction_Date") /\ high
                              -> Remedy.audit
                        [] OTHER -> Remedy.none)

\* C18 witness: a dataset with the three verdicts and the risk score, where
\* a HIGH row with three true verdicts has the manual-audit message and a
\* HIGH row whose Valid_Currency is false has the currency message.
C18_Witness ==
    /\ df.frame
    /\ {"Remediation", "Risk_Score", "Valid_Currency", "Valid_Transaction",
        "Valid_Transaction_Date"} \subseteq df.cols
    /\ \E k \in 1..Len(df.rows) :
          /\ df.rows[k]["Risk_Score"] = VStr(Tier.HIGH)
          /\ \A c \in {"Valid_Currency", "Valid_Transaction", "Valid_Transaction_Date"} :
                df.rows[k][c] = VTrue
          /\ df.rows[k]["Remediation"] = VStr(Remedy.audit)
    /\ \E k \in 1..Len(df.rows) :
          /\ df.rows[k]["Risk_Score"] = VStr(Tier.HIGH)
          /\ df.rows[k]["Valid_Currency"] = VFalse
          /\ df.rows[k]["Remediation"] = VStr(Remedy.currency)

\* C19: apply_custom_rules returns the dataset it was given, with its rows
\* and columns kept, and with the verdict column of every rule of
\* CUSTOM_RULES.
C19_CustomRulesAugment ==
    (pc = "risk")
    => /\ df.frame
       /\ Len(df.rows) = Len(upload)
       /\ DOMAIN ReadCustomCsv(upload).rows = DOMAIN df.rows
       /\ ReadCustomCsv(upload).cols \subseteq df.cols
       /\ {"Valid_Transaction", "Valid_Currency", "Valid_Transaction_Date"}
             \subseteq df.cols

\* C20: registering the same rule twice, or two rules that write the same
\* output column, is rejected with a configuration error when the registry
\* is built; a later definition never replaces an earlier one.
C20_DuplicateRejected ==
    LET Done == 1..(IF pc = "def" THEN i - 1 ELSE Len(ModuleDefs))
        Twice == \E j, k \in Done :
                    /\ j < k
                    /\ \/ ModuleDefs[j][1] = ModuleDefs[k][1]
                       \/ OutputField(ModuleDefs[j][1]) = OutputField(ModuleDefs[k][1])
        Replaced == \E k \in Done :
                       /\ module[ModuleDefs[k][1]] # ModuleDefs[k][2]
                       /\ \A j \in Done : ModuleDefs[j][1] = ModuleDefs[k][1] => k <= j
        Registered == \E j, k \in DOMAIN registry :
                         /\ j < k
                         /\ \/ registry[j] = registry[k]
                            \/ OutputField(registry[j]) = OutputField(registry[k])
    IN  (pc \in {"def", "extend", "loaded"} /\ (Twice \/ Replaced \/ Registered))
        => status = "config_error"

\* C21: after a rule has run, every value of its verdict column is a
\* boolean, for every row and every rule; no verdict is a match object, a
\* missing value or a string.
C21_VerdictIsBoolean ==
    (pc = "applied" /\ status = "running")
    => \A k \in 1..Len(df.rows) : df.rows[k][OutputField(AllRulesSeq[i])].t = "bool"

\* C22: the verdict, risk tier and remediation of a row depend only on that
\* row's own field values: the row gets, in the dataset it was uploaded in,
\* what it gets in a dataset that holds that row alone.
C22_RowAlone ==
    LET Col(d, c, f(_)) ==
            SetColumn(d, "Valid_" \o c, [j \in 1..Len(d.rows) |-> f(d.rows[j][c])],
                      "bool")
        currency(x) == validate_currency_format(x)
        date(x) == validate_transaction_date(x, today)
        Alone(k) ==
            LET d0 == ReadCustomCsv(<<upload[k]>>)
                d1 == IF "Valid_Transaction" \in df.cols
                      THEN validate_transaction_amount(d0).df ELSE d0
                d2 == IF "Valid_Currency" \in df.cols
                      THEN Col(d1, "Currency", currency) ELSE d1
                d3 == IF "Valid_Transaction_Date" \in df.cols
                      THEN Col(d2, "Transaction_Date", date) ELSE d2
                d4 == IF "Risk_Score" \in df.cols THEN assign_risk_score(d3).df ELSE d3
            IN  IF "Remediation" \in df.cols THEN suggest_remediation(d4).df ELSE d4
    IN  /\ (pc = "applied" /\ status = "running")
           => \A k \in 1..Len(df.rows) :
                 LET rule == AllRulesSeq[i]
                     r == RunRule(rule, ReadCustomCsv(<<upload[k]>>), today)
                 IN  /\ r.ok
                     /\ r.df.rows[1][OutputField(rule)] = df.rows[k][OutputField(rule)]
        /\ (pc \in {"custom", "scored", "remedied"} /\ status = "running")
           => \A k \in 1..Len(df.rows) :
                 LET a == Alone(k)
                 IN  \A c \in {"Valid_Transaction", "Valid_Currency",
                               "Valid_Transaction_Date", "Risk_Score", "Remediation"}
                               \cap df.cols :
                        c \in a.cols /\ a.rows[1][c] = df.rows[k][c]

\* C25: validate_transaction_amount sets Valid_Transaction to true iff the
\* absolute difference between the uploaded Transaction_Amount and
\* Reported_Amount is at most 1% of Transaction_Amount, the bound included.
C25_OnePercent ==
    (df.frame /\ "Valid_Transaction" \in df.cols)
    => LET raw == ReadCustomCsv(upload)
           Abs(x) == IF x < 0 THEN 0 - x ELSE x
       IN  \A k \in 1..Len(df.rows) :
              LET a == raw.rows[k]["Transaction_Amount"]
                  r == raw.rows[k]["Reported_Amount"]
              IN  df.rows[k]["Valid_Transaction"]
                     = VBool(/\ a.t \in {"int", "float"} /\ r.t \in {"int", "float"}
                             /\ 100 * Abs(Tenths(a) - Tenths(r)) <= Tenths(a))

\* C26: every validation rule function defined in corporate_loan_rules
\* (Zip_Code included) is an element of CORPORATE_LOAN_RULES exactly once,
\* so a pass writes the output field of every rule defined.
C26_EveryRuleRegisteredOnce ==
    (pc = "loaded")
    => \A n \in DOMAIN module :
          (module[n] # 0)
          => /\ Cardinality({j \in DOMAIN registry : registry[j] = n}) = 1
             /\ \E j \in DOMAIN registry : OutputField(registry[j]) = OutputField(n)

\* C23: when the key of the external remediation service is not set, the
\* pipeline does not fail: the verdicts and the risk tiers are produced for
\* every row, and every row's remediation is the fixed fallback text.
C23_NoKeyFallback ==
    (~OPENAI_API_KEY)
    => /\ status # "crashed"
       /\ (pc \in {"risk", "display"})
          => /\ df.frame
             /\ Len(df.rows) = Len(upload)
             /\ VerdictColumns \subseteq df.cols
       /\ (pc = "display")
          => /\ Risk_Level \in df.cols
             /\ "Remediation" \in df.cols
             /\ \A k \in 1..Len(df.rows) : df.rows[k]["Remediation"] = VStr(KeyNotSet)

\* C24: when the key of the external text-generation service is not set,
\* each row of the output the pipeline ends with has its rule-based
\* remediation message, the first-match message of suggest_remediation.
C24_RuleBasedKept ==
    (~OPENAI_API_KEY /\ (status = "crashed" \/ pc = "display"))
    => /\ df.frame
       /\ "Remediation" \in df.cols
       /\ \A k \in 1..Len(df.rows) :
             df.rows[k]["Remediation"]
                 = suggest_remediation(df).df.rows[k]["Remediation"]

\* C27: the column the pipeline writes the risk tier into is the column
\* get_remedy reads it from ("Risk_Score"), and in the output the pipeline
\* ends with, a row scored HIGH whose three verdicts are true has the
\* manual-audit message.
C27_TierColumnRead ==
    /\ Risk_Level = "Risk_Score"
    /\ (status = "crashed" \/ pc = "display")
       => /\ df.frame
          /\ {Risk_Level, "Remediation"} \subseteq df.cols
          /\ \A k \in 1..Len(df.rows) :
                (/\ df.rows[k][Risk_Level] = VStr(Tier.HIGH)
                 /\ \A c \in {"Valid_Currency", "Valid_Transaction",
                              "Valid_Transaction_Date"} :
                       c \in df.cols /\ df.rows[k][c] = VTrue)
                => df.rows[k]["Remediation"] = VStr(Remedy.audit)

====
